---------------------------- MODULE Spec2Model ----------------------------
(***************************************************************************)
(* A model of himotoki-split, a dictionary-driven Japanese tokenizer.      *)
(*                                                                         *)
(* Nine state machines share the variables of this module.                 *)
(*                                                                         *)
(*   SpecLex  the lexicon singleton of dictionary.py and the callers of    *)
(*            the facade (__init__.py), one Python thread per element of   *)
(*            Threads.  Every step is one read or write of a module level  *)
(*            global, the grain at which CPython threads interleave.       *)
(*                                                                         *)
(*   SpecSeq  the same steps with the callers taking turns: a call runs    *)
(*            to its end before the next one starts; it also follows the   *)
(*            kana readings table.                                         *)
(*                                                                         *)
(*   Spec     one call of the facade on one text and one lexicon: the      *)
(*            lattice builder, the path selector and the rewriter passes   *)
(*            of tokenizer.py and suffix_splitting.py, one action per      *)
(*            pass (or per iteration of a fixed point loop).               *)
(*                                                                         *)
(*   SpecDP   one call of find_best_path on a lattice drawn from a bounded *)
(*            set, one action per loop iteration of the forward pass.      *)
(*                                                                         *)
(*   SpecNum  one call of parse_number on the arabic or the kanji form of  *)
(*            a number, one action per character of the kanji loop.        *)
(*                                                                         *)
(*   SpecRw   one call of the facade on the whole lexicon, up to the end   *)
(*            of its rewriter loops, with the iterations counted.          *)
(*                                                                         *)
(*   SpecLat  one call of find_all_matches on a text drawn from a bounded  *)
(*            set, one action per iteration of its two loops.              *)
(*                                                                         *)
(*   SpecAdj  one call of calculate_split_score_adjustment on an entry of  *)
(*            the split tables of splits.py.                               *)
(*                                                                         *)
(*   SpecPool the thread pool of the async wrappers (__init__.py) and      *)
(*            shutdown(), one statement at a time.                         *)
(*                                                                         *)
(* Characters are Unicode code points, surfaces are sequences of code      *)
(* points, and the literal rule tables are the tables of the source.       *)
(***************************************************************************)
EXTENDS Integers, Sequences, FiniteSets, TLC

VARIABLES
    \* ---- lexicon singleton (dictionary.py) ----
    DICTIONARY,      \* _DICTIONARY: 0 is None, n > 0 the n-th RecordTrie made
                     \* since the lexicon was last unloaded
    BASE_FORMS,      \* _BASE_FORMS: "None" (nothing in dictionary.py sets it)
    KANA_READINGS,   \* _KANA_READINGS: "None", "loaded" (the whole table, or {}
                     \* when the file is missing), "partial" (parse failed)
    mapped,          \* the RecordTrie objects whose mmap() has completed
    created,         \* RecordTrie objects constructed since the last unload
    dicFile,         \* data/himotoki.dic on disk: "absent", "ok", "corrupt"
    th,              \* per thread: the call it is in and where it stands
    \* ---- one call of the facade (tokenizer.py, suffix_splitting.py) ----
    input,           \* the text argument
    lexicon,         \* the keys of the loaded lexicon
    stage,           \* the pass about to run; "done" once tokenize returned
    toks,            \* tokens: the token list the passes rewrite
    prev_len,        \* prev_len of the fixed point loop being run
    loop,            \* history of that loop: the number of tokens it
                     \* started on and the iterations it has run
    round,           \* 1: the call itself, 2: the rewriter run again
    first,           \* what the rewriter returned in round 1
    klimit,          \* limit given to analyze, 0 before analyze is called
    analysis,        \* what analyze returned: <<(tokens, score)>>
    \* ---- one call of find_best_path (tokenizer.py) ----
    fbp,             \* its frame: matches, text_length, limit, dp, pos, the
                     \* span and entry the relaxation stands at, results
    \* ---- one call of parse_number (counters.py) ----
    num,             \* its frame: text, the loop index, result, current
    \* ---- one call of find_all_matches (tokenizer.py) ----
    lat,             \* its frame: text, lexicon, sticky, start, end, matches
    \* ---- one call of calculate_split_score_adjustment (splits.py) ----
    adj,             \* its frame: surface, seq, the adjustment returned
    \* ---- the thread pool of the async wrappers (__init__.py) ----
    pool             \* _executor, the executors made, and each caller's step

lexvars == <<DICTIONARY, BASE_FORMS, KANA_READINGS, mapped, created, dicFile, th>>

pipevars == <<input, lexicon, stage, toks, prev_len, loop, round, first, klimit,
              analysis>>

morevars == <<lat, adj, pool>>

vars == <<lexvars, pipevars, fbp, num, morevars>>

-----------------------------------------------------------------------------
(* Bounds *)

NumThreads == 2
MaxParts == 2
MaxLimit == 2
MaxLen == 3
MaxSpans == 3
MaxDigit == 2
MaxCalls == 2

Threads == 1..NumThreads

\* BEGIN-PIPELINE
-----------------------------------------------------------------------------
(* Literal rule tables of the source, characters as code points *)

MAX_WORD_LENGTH == 30

UNKNOWN_CHAR_PENALTY == -50

PARTICLE_POS_IDS == {82}

PRONOUN_POS_IDS == {80, 44}

\* punctuation characters that separate the runs the facade tokenizes (tokenizer.py)
PUNCTUATION_SEPARATORS ==
    {<<12289>>,  \* 、
     <<12290>>,  \* 。
     <<65281>>,  \* ！
     <<65311>>,  \* ？
     <<65292>>,  \* ，
     <<65294>>,  \* ．
     <<8230>>,  \* …
     <<12539>>}  \* ・

\* single-character particles (tokenizer.py)
SINGLE_CHAR_PARTICLES ==
    {<<12399>>,  \* は
     <<12364>>,  \* が
     <<12434>>,  \* を
     <<12395>>,  \* に
     <<12391>>,  \* で
     <<12392>>,  \* と
     <<12408>>,  \* へ
     <<12418>>,  \* も
     <<12363>>,  \* か
     <<12424>>,  \* よ
     <<12397>>}  \* ね

\* lexicalized compounds that get the known-compound bonus (tokenizer.py)
VALID_COMPOUND_WORDS ==
    {<<12371, 12435, 12395, 12385, 12399>>,  \* こんにちは
     <<12371, 12435, 12400, 12435, 12399>>,  \* こんばんは
     <<12391, 12399>>,  \* では
     <<12395, 12399>>,  \* には
     <<12392, 12399>>,  \* とは
     <<12371, 12398>>,  \* この
     <<12381, 12398>>,  \* その
     <<12354, 12398>>,  \* あの
     <<12393, 12398>>,  \* どの
     <<12371, 12428>>,  \* これ
     <<12381, 12428>>,  \* それ
     <<12354, 12428>>,  \* あれ
     <<12393, 12428>>,  \* どれ
     <<12371, 12371>>,  \* ここ
     <<12381, 12371>>,  \* そこ
     <<12354, 12381, 12371>>,  \* あそこ
     <<12393, 12371>>,  \* どこ
     <<12392, 12371, 12429>>,  \* ところ
     <<12418, 12398>>,  \* もの
     <<12371, 12392>>,  \* こと
     <<12392, 12365>>,  \* とき
     <<12393, 12358>>,  \* どう
     <<12371, 12358>>,  \* こう
     <<12381, 12358>>,  \* そう
     <<12354, 12354>>,  \* ああ
     <<12394, 12435, 12363>>,  \* なんか
     <<12394, 12395, 12363>>,  \* なにか
     <<12384, 12428, 12363>>,  \* だれか
     <<12418, 12358>>,  \* もう
     <<12414, 12384>>,  \* まだ
     <<12414, 12383>>,  \* また
     <<12394, 12435, 12391>>,  \* なんで
     <<12393, 12358, 12375, 12390>>,  \* どうして
     <<12418, 12358, 23569, 12375>>,  \* もう少し
     <<12418, 12358, 12377, 12368>>,  \* もうすぐ
     <<12393, 12398, 12367, 12425, 12356>>,  \* どのくらい
     <<12393, 12358, 12420, 12387, 12390>>,  \* どうやって
     <<12371, 12398, 12354, 12383, 12426>>,  \* このあたり
     <<12356, 12388, 12363, 12425>>,  \* いつから
     <<20170, 12395, 12418>>,  \* 今にも
     <<12392, 12390, 12418>>,  \* とても
     <<12356, 12367, 12425>>,  \* いくら
     <<12381, 12435, 12394, 12395>>,  \* そんなに
     <<12393, 12435, 12394, 12395>>,  \* どんなに
     <<12414, 12378, 12356>>,  \* まずい
     <<12391, 12375, 12423, 12358, 12363>>,  \* でしょうか
     <<38745, 12363, 12395>>,  \* 静かに
     <<30906, 12363, 12395>>,  \* 確かに
     <<29305, 12395>>,  \* 特に
     <<26412, 24403, 12395>>,  \* 本当に
     <<21029, 12395>>,  \* 別に
     <<12377, 12368, 12395>>,  \* すぐに
     <<12388, 12356, 12395>>,  \* ついに
     <<24613, 12395>>,  \* 急に
     <<21336, 12395>>,  \* 単に
     <<38918, 12395>>,  \* 順に
     <<19969, 23527, 12395>>,  \* 丁寧に
     <<29305, 21029, 12395>>,  \* 特別に
     <<20803, 27671, 12395>>,  \* 元気に
     <<19968, 24540>>,  \* 一応
     <<23455, 38555, 12395>>,  \* 実際に
     <<29694, 12395>>,  \* 現に
     <<31232, 12395>>,  \* 稀に
     <<12383, 12414, 12395>>,  \* たまに
     <<32118, 23550, 12395>>,  \* 絶対に
     <<12380, 12387, 12383, 12356, 12395>>,  \* ぜったいに
     <<12383, 12417, 12395>>,  \* ために
     <<12381, 12371, 12414, 12391>>,  \* そこまで
     <<12393, 12371, 12414, 12391>>,  \* どこまで
     <<20170, 12414, 12391>>,  \* 今まで
     <<12371, 12371, 12363, 12425>>,  \* ここから
     <<12381, 12371, 12363, 12425>>,  \* そこから
     <<12393, 12371, 12363, 12425>>,  \* どこから
     <<12415, 12383, 12356>>,  \* みたい
     <<12415, 12383, 12356, 12391, 12377>>,  \* みたいです
     <<12415, 12383, 12356, 12384>>,  \* みたいだ
     <<12363, 12393, 12358, 12363>>,  \* かどうか
     <<12362, 21223, 12417, 12375, 12414, 12377>>,  \* お勧めします
     <<12362, 39000, 12356, 12375, 12414, 12377>>,  \* お願いします
     <<20206, 12395>>,  \* 仮に
     <<12363, 12426, 12395>>,  \* かりに
     <<12392, 12375, 12390, 12418>>,  \* としても
     <<12363, 12425, 12395, 12399>>,  \* からには
     <<22833, 25943, 12375, 12383>>,  \* 失敗した
     <<20309, 12391, 12418>>,  \* 何でも
     <<12394, 12435, 12391, 12418>>,  \* なんでも
     <<19968, 32210, 12395>>,  \* 一緒に
     <<12356, 12387, 12375, 12423, 12395>>,  \* いっしょに
     <<12373, 12360, 12354, 12428, 12400>>,  \* さえあれば
     <<12356, 12363, 12364>>,  \* いかが
     <<12390, 12363>>,  \* てか
     <<12354, 12398, 20154>>,  \* あの人
     <<12371, 12398, 20154>>,  \* この人
     <<12381, 12398, 20154>>,  \* その人
     <<12393, 12398, 20154>>,  \* どの人
     <<12371, 12428, 12384, 12369>>,  \* これだけ
     <<12381, 12428, 12384, 12369>>,  \* それだけ
     <<12354, 12428, 12384, 12369>>,  \* あれだけ
     <<12393, 12428, 12384, 12369>>,  \* どれだけ
     <<34180, 26263, 12367>>,  \* 薄暗く
     <<34180, 26263, 12356>>,  \* 薄暗い
     <<12393, 12371, 12363>>,  \* どこか
     <<12373, 12377, 12364>>,  \* さすが
     <<12392, 12398, 12371, 12392>>,  \* とのこと
     <<21313, 20108, 21495>>,  \* 十二号
     <<21313, 21495>>,  \* 十号
     <<19968, 21495>>,  \* 一号
     <<20108, 21495>>,  \* 二号
     <<19977, 21495>>,  \* 三号
     <<12356, 12390, 12367, 12428, 12390>>,  \* いてくれて
     <<12356, 12390, 12367, 12428, 12383>>,  \* いてくれた
     <<12356, 12390, 12367, 12428, 12427>>,  \* いてくれる
     <<20998, 12363, 12387, 12390, 12367, 12428, 12394, 12356>>,  \* 分かってくれない
     <<20998, 12363, 12387, 12390, 12367, 12428, 12383>>,  \* 分かってくれた
     <<35211, 12379, 12390, 12367, 12428, 12394, 12356>>,  \* 見せてくれない
     <<35211, 12379, 12390, 12367, 12428, 12383>>,  \* 見せてくれた
     <<35211, 12379, 12390, 12367, 12428, 12427>>,  \* 見せてくれる
     <<35328, 12387, 12390, 12427>>,  \* 言ってる
     <<35328, 12387, 12390, 12383>>,  \* 言ってた
     <<35211, 12383, 12356>>,  \* 見たい
     <<20250, 12356, 12383, 12356>>,  \* 会いたい
     <<39135, 12409, 12383, 12356>>,  \* 食べたい
     <<34892, 12365, 12383, 12356>>,  \* 行きたい
     <<23432, 12426, 12383, 12356>>,  \* 守りたい
     <<12394, 12435, 12390>>,  \* なんて
     <<20309, 12392>>,  \* 何と
     <<12420, 12400, 12356>>,  \* やばい
     <<12363, 12425, 12392, 12356, 12387, 12390>>,  \* からといって
     <<12363, 12425, 12392, 12356, 12387, 12383>>,  \* からといった
     <<12431, 12369, 12395, 12399, 12356, 12363, 12394, 12356>>,  \* わけにはいかない
     <<12431, 12369, 12395, 12399, 12356, 12365, 12414, 12379, 12435>>,  \* わけにはいきません
     <<12363, 12418, 12375, 12428, 12394, 12356>>,  \* かもしれない
     <<12363, 12418, 12375, 12428, 12414, 12379, 12435>>,  \* かもしれません
     <<12363, 12418, 12375, 12428, 12394, 12363, 12387, 12383>>,  \* かもしれなかった
     <<12394, 12425, 12394, 12356>>,  \* ならない
     <<12394, 12426, 12414, 12379, 12435>>,  \* なりません
     <<20998, 12363, 12425, 12394, 12367, 12394, 12427>>,  \* 分からなくなる
     <<12431, 12363, 12425, 12394, 12367, 12394, 12427>>,  \* わからなくなる
     <<24453, 12387, 12390, 12367, 12384, 12373, 12356>>,  \* 待ってください
     <<24453, 12387, 12390, 12367, 12384, 12373, 12356, 12414, 12379>>,  \* 待ってくださいませ
     <<20449, 12376, 12390, 12367, 12428, 12394, 12356>>,  \* 信じてくれない
     <<20449, 12376, 12390, 12367, 12428, 12427>>,  \* 信じてくれる
     <<20449, 12376, 12390, 12367, 12428, 12383>>,  \* 信じてくれた
     <<26292, 12356, 12390, 12415, 12379, 12427>>,  \* 暴いてみせる
     <<35211, 12379, 12390, 12415, 12379, 12427>>,  \* 見せてみせる
     <<26399, 24453, 12373, 12428, 12390, 12356, 12427>>,  \* 期待されている
     <<26399, 24453, 12373, 12428, 12390, 12356, 12383>>,  \* 期待されていた
     <<35328, 12431, 12428, 12390, 12415, 12428, 12400>>,  \* 言われてみれば
     <<24656, 12428, 20837, 12426, 12414, 12377, 12364>>,  \* 恐れ入りますが
     <<24656, 12428, 20837, 12426, 12414, 12377>>,  \* 恐れ入ります
     <<32076, 28168, 25919, 31574>>,  \* 経済政策
     <<35519, 26619, 20013>>,  \* 調査中
     <<12356, 12356, 22825, 27671>>,  \* いい天気
     <<31185, 23398, 25216, 34899>>,  \* 科学技術
     <<38651, 35441, 12375, 12390, 12418, 12356, 12356>>,  \* 電話してもいい
     <<38651, 35441, 12375, 12390, 12418, 12356, 12356, 12391, 12377, 12363>>,  \* 電話してもいいですか
     <<20998, 12363, 12387, 12390, 12418, 12425, 12360, 12394, 12363, 12387, 12383>>,  \* 分かってもらえなかった
     <<20998, 12363, 12387, 12390, 12418, 12425, 12360, 12427>>,  \* 分かってもらえる
     <<20998, 12363, 12387, 12390, 12418, 12425, 12360, 12394, 12356>>,  \* 分かってもらえない
     <<12362, 12426, 12414, 12377>>,  \* おります
     <<12362, 12426, 12414, 12375, 12383>>,  \* おりました
     <<36000, 12369, 12394, 12356>>,  \* 負けない
     <<36000, 12369, 12414, 12379, 12435>>}  \* 負けません

\* auxiliaries merged onto a te-form (tokenizer.py)
TE_FORM_MERGE_PATTERNS ==
    <<<<12356, 12427>>,  \* いる
      <<12356, 12383>>,  \* いた
      <<12356, 12414, 12377>>,  \* います
      <<12356, 12414, 12375, 12383>>,  \* いました
      <<12356, 12390>>,  \* いて
      <<12356, 12394, 12356>>,  \* いない
      <<12356, 12414, 12379, 12435>>,  \* いません
      <<12375, 12414, 12358>>,  \* しまう
      <<12375, 12414, 12387, 12383>>,  \* しまった
      <<12375, 12414, 12356, 12414, 12377>>,  \* しまいます
      <<12375, 12414, 12356, 12414, 12375, 12383>>,  \* しまいました
      <<12367, 12384, 12373, 12356>>,  \* ください
      <<12367, 12384, 12373, 12427>>,  \* くださる
      <<12367, 12384, 12373, 12387, 12383>>,  \* くださった
      <<12367, 12384, 12373, 12356, 12414, 12377>>,  \* くださいます
      <<12362, 12367>>,  \* おく
      <<12362, 12356, 12383>>,  \* おいた
      <<12362, 12365, 12414, 12377>>,  \* おきます
      <<12362, 12365, 12414, 12375, 12383>>,  \* おきました
      <<12367, 12427>>,  \* くる
      <<12365, 12383>>,  \* きた
      <<12365, 12414, 12377>>,  \* きます
      <<12365, 12414, 12375, 12383>>,  \* きました
      <<12356, 12367>>,  \* いく
      <<12356, 12387, 12383>>,  \* いった
      <<12356, 12365, 12414, 12377>>,  \* いきます
      <<12356, 12365, 12414, 12375, 12383>>,  \* いきました
      <<12354, 12370, 12427>>,  \* あげる
      <<12354, 12370, 12383>>,  \* あげた
      <<12418, 12425, 12358>>,  \* もらう
      <<12418, 12425, 12387, 12383>>,  \* もらった
      <<12415, 12379, 12427>>,  \* みせる
      <<12415, 12379, 12383>>,  \* みせた
      <<12415, 12379, 12414, 12377>>,  \* みせます
      <<12415, 12379, 12414, 12375, 12383>>,  \* みせました
      <<12367, 12428, 12427>>,  \* くれる
      <<12367, 12428, 12383>>,  \* くれた
      <<12367, 12428, 12394, 12356>>,  \* くれない
      <<12367, 12428, 12414, 12379, 12435>>,  \* くれません
      <<12418, 12425, 12360, 12427>>,  \* もらえる
      <<12418, 12425, 12360, 12383>>,  \* もらえた
      <<12418, 12425, 12360, 12394, 12356>>,  \* もらえない
      <<12418, 12425, 12360, 12394, 12363, 12387, 12383>>,  \* もらえなかった
      <<12418, 12425, 12360, 12414, 12379, 12435>>,  \* もらえません
      <<12415, 12428, 12400>>>>  \* みれば

\* continuations merged onto a passive/potential stem (tokenizer.py)
PASSIVE_MERGE_PATTERNS ==
    <<<<12390, 12356, 12427>>,  \* ている
      <<12390, 12356, 12383>>,  \* ていた
      <<12390, 12356, 12414, 12377>>,  \* ています
      <<12390, 12356, 12414, 12375, 12383>>,  \* ていました
      <<12390, 12356, 12394, 12356>>,  \* ていない
      <<12390, 12356, 12414, 12379, 12435>>>>  \* ていません

\* endings of a passive/potential stem (tokenizer.py)
PASSIVE_STEM_ENDINGS ==
    <<<<12373, 12428>>,  \* され
      <<12425, 12428>>,  \* られ
      <<12363, 12428>>,  \* かれ
      <<12414, 12428>>,  \* まれ
      <<12383, 12428>>,  \* たれ
      <<12394, 12428>>,  \* なれ
      <<12400, 12428>>,  \* ばれ
      <<12364, 12428>>,  \* がれ
      <<12380, 12428>>>>  \* ぜれ

\* suru continuations merged onto the token before them (tokenizer.py)
SURU_CONTINUATION_PATTERNS ==
    <<<<12375, 12390, 12356, 12414, 12377>>,  \* しています
      <<12375, 12390, 12356, 12383>>,  \* していた
      <<12375, 12390, 12356, 12390>>,  \* していて
      <<12375, 12390, 12356, 12394, 12356>>,  \* していない
      <<12375, 12390, 12356, 12414, 12379, 12435>>,  \* していません
      <<12375, 12390, 12362, 12356, 12383>>,  \* しておいた
      <<12375, 12390, 12362, 12367>>,  \* しておく
      <<12375, 12390, 12362, 12365, 12414, 12377>>,  \* しておきます
      <<12375, 12390, 12362, 12356, 12390>>,  \* しておいて
      <<12375, 32154, 12369, 12390, 12356, 12427>>,  \* し続けている
      <<12375, 32154, 12369, 12390>>,  \* し続けて
      <<12375, 32154, 12369, 12427>>,  \* し続ける
      <<12375, 32154, 12369, 12383>>,  \* し続けた
      <<12375, 22987, 12417, 12427>>,  \* し始める
      <<12375, 22987, 12417, 12383>>,  \* し始めた
      <<12375, 22987, 12417, 12390>>,  \* し始めて
      <<12375, 12390, 12418, 12356, 12356>>,  \* してもいい
      <<12375, 12390, 12418, 12356, 12356, 12391, 12377, 12363>>,  \* してもいいですか
      <<12375, 12390, 12418, 12356, 12356, 12391, 12377>>>>  \* してもいいです

\* multi-token literal merges, in source order (tokenizer.py)
MULTI_TOKEN_MERGES ==
    <<<<<<<<12367, 12384>>, <<12373, 12356>>>>, <<12367, 12384, 12373, 12356>>>>,  \* くだ|さい -> ください
      <<<<<<12392, 12356>>, <<12387, 12390>>>>, <<12392, 12356, 12387, 12390>>>>,  \* とい|って -> といって
      <<<<<<12363, 12425>>, <<12392, 12356, 12387, 12390>>>>, <<12363, 12425, 12392, 12356, 12387, 12390>>>>,  \* から|といって -> からといって
      <<<<<<12431, 12369>>, <<12395, 12399>>, <<12356, 12363, 12394, 12356>>>>, <<12431, 12369, 12395, 12399, 12356, 12363, 12394, 12356>>>>,  \* わけ|には|いかない -> わけにはいかない
      <<<<<<20998>>, <<12363, 12425>>, <<12394, 12367>>, <<12394, 12427>>>>, <<20998, 12363, 12425, 12394, 12367, 12394, 12427>>>>,  \* 分|から|なく|なる -> 分からなくなる
      <<<<<<20998>>, <<12363, 12425>>, <<12394, 12367, 12394, 12427>>>>, <<20998, 12363, 12425, 12394, 12367, 12394, 12427>>>>,  \* 分|から|なくなる -> 分からなくなる
      <<<<<<12363, 12418>>, <<12375, 12428>>, <<12394, 12356>>>>, <<12363, 12418, 12375, 12428, 12394, 12356>>>>,  \* かも|しれ|ない -> かもしれない
      <<<<<<12363, 12418>>, <<12375, 12428, 12394, 12356>>>>, <<12363, 12418, 12375, 12428, 12394, 12356>>>>,  \* かも|しれない -> かもしれない
      <<<<<<12394, 12425>>, <<12394, 12356>>>>, <<12394, 12425, 12394, 12356>>>>,  \* なら|ない -> ならない
      <<<<<<24656, 12428>>, <<20837, 12426, 12414, 12377>>, <<12364>>>>, <<24656, 12428, 20837, 12426, 12414, 12377, 12364>>>>,  \* 恐れ|入ります|が -> 恐れ入りますが
      <<<<<<24656, 12428>>, <<20837, 12426, 12414, 12377, 12364>>>>, <<24656, 12428, 20837, 12426, 12414, 12377, 12364>>>>,  \* 恐れ|入りますが -> 恐れ入りますが
      <<<<<<12367, 12428>>, <<12394, 12356>>>>, <<12367, 12428, 12394, 12356>>>>,  \* くれ|ない -> くれない
      <<<<<<12418>>, <<12425>>, <<12360, 12394, 12363, 12387, 12383>>>>, <<12418, 12425, 12360, 12394, 12363, 12387, 12383>>>>,  \* も|ら|えなかった -> もらえなかった
      <<<<<<26399, 24453>>, <<12373, 12428>>, <<12390, 12356, 12427>>>>, <<26399, 24453, 12373, 12428, 12390, 12356, 12427>>>>,  \* 期待|され|ている -> 期待されている
      <<<<<<12373, 12428>>, <<12390, 12356, 12427>>>>, <<12373, 12428, 12390, 12356, 12427>>>>,  \* され|ている -> されている
      <<<<<<12415>>, <<12379, 12427>>>>, <<12415, 12379, 12427>>>>,  \* み|せる -> みせる
      <<<<<<24453, 12387, 12390>>, <<12367, 12384, 12373, 12356>>>>, <<24453, 12387, 12390, 12367, 12384, 12373, 12356>>>>,  \* 待って|ください -> 待ってください
      <<<<<<38651, 35441>>, <<12375, 12390>>, <<12418>>, <<12356, 12356>>>>, <<38651, 35441, 12375, 12390, 12418, 12356, 12356>>>>>>  \* 電話|して|も|いい -> 電話してもいい

\* particles peeled off the end of a token (suffix_splitting.py)
SPLIT_PARTICLES ==
    {<<12434>>,  \* を
     <<12395>>,  \* に
     <<12408>>}  \* へ

\* words whose final particle is never peeled (suffix_splitting.py)
NO_SPLIT_COMPOUNDS ==
    {<<12395, 12399>>,  \* には
     <<12391, 12399>>,  \* では
     <<12392, 12399>>,  \* とは
     <<12395, 12418>>,  \* にも
     <<12391, 12418>>,  \* でも
     <<12390, 12418>>,  \* ても
     <<12414, 12391>>,  \* まで
     <<12363, 12425>>,  \* から
     <<12424, 12426>>,  \* より
     <<12398, 12395>>,  \* のに
     <<12398, 12391>>,  \* ので
     <<12398, 12363>>,  \* のか
     <<12398, 12434>>,  \* のを
     <<12383, 12417, 12398>>,  \* ための
     <<12383, 12417, 12395>>,  \* ために
     <<12363, 12425, 12395, 12399>>,  \* からには
     <<12391, 12399, 12394, 12356>>,  \* ではない
     <<12395, 12388, 12356, 12390>>,  \* について
     <<12395, 23550, 12375, 12390>>,  \* に対して
     <<12395, 12392, 12387, 12390>>,  \* にとって
     <<12395, 12362, 12356, 12390>>,  \* において
     <<12395, 12362, 12369, 12427>>,  \* における
     <<12392, 12375, 12390>>,  \* として
     <<12392, 12392, 12418, 12395>>,  \* とともに
     <<12395, 12424, 12387, 12390>>,  \* によって
     <<12395, 12424, 12426>>,  \* により
     <<12395, 12424, 12427>>,  \* による
     <<12377, 12368, 12395>>,  \* すぐに
     <<12388, 12356, 12395>>,  \* ついに
     <<12411, 12363, 12395>>,  \* ほかに
     <<12402, 12373, 12375, 12406, 12426, 12395>>,  \* ひさしぶりに
     <<20037, 12375, 12406, 12426, 12395>>,  \* 久しぶりに
     <<12370, 12435, 12395>>,  \* げんに
     <<29694, 12395>>,  \* 現に
     <<12414, 12428, 12395>>,  \* まれに
     <<31232, 12395>>,  \* 稀に
     <<12383, 12414, 12395>>,  \* たまに
     <<12411, 12435, 12392, 12358, 12395>>,  \* ほんとうに
     <<26412, 24403, 12395>>,  \* 本当に
     <<12383, 12375, 12363, 12395>>,  \* たしかに
     <<30906, 12363, 12395>>,  \* 確かに
     <<12356, 12385, 12362, 12358, 12395>>,  \* いちおうに
     <<19968, 24540, 12395>>,  \* 一応に
     <<12376, 12387, 12373, 12356, 12395>>,  \* じっさいに
     <<23455, 38555, 12395>>,  \* 実際に
     <<12409, 12388, 12395>>,  \* べつに
     <<21029, 12395>>,  \* 別に
     <<12392, 12367, 12395>>,  \* とくに
     <<29305, 12395>>,  \* 特に
     <<12383, 12435, 12395>>,  \* たんに
     <<21336, 12395>>,  \* 単に
     <<12376, 12421, 12435, 12395>>,  \* じゅんに
     <<38918, 12395>>,  \* 順に
     <<12375, 12384, 12356, 12395>>,  \* しだいに
     <<27425, 31532, 12395>>,  \* 次第に
     <<12390, 12365, 12395>>,  \* てきに
     <<30340, 12395>>,  \* 的に
     <<12390, 12356, 12397, 12356, 12395>>,  \* ていねいに
     <<19969, 23527, 12395>>,  \* 丁寧に
     <<12392, 12367, 12409, 12388, 12395>>,  \* とくべつに
     <<29305, 21029, 12395>>,  \* 特別に
     <<12375, 12378, 12363, 12395>>,  \* しずかに
     <<38745, 12363, 12395>>,  \* 静かに
     <<12370, 12435, 12365, 12395>>,  \* げんきに
     <<20803, 27671, 12395>>,  \* 元気に
     <<12380, 12387, 12383, 12356, 12395>>,  \* ぜったいに
     <<32118, 23550, 12395>>,  \* 絶対に
     <<12363, 12426, 12395>>,  \* かりに
     <<20206, 12395>>,  \* 仮に
     <<19968, 32210, 12395>>,  \* 一緒に
     <<12356, 12387, 12375, 12423, 12395>>,  \* いっしょに
     <<12381, 12435, 12394, 12395>>,  \* そんなに
     <<12371, 12435, 12394, 12395>>,  \* こんなに
     <<12354, 12435, 12394, 12395>>,  \* あんなに
     <<12393, 12435, 12394, 12395>>,  \* どんなに
     <<12424, 12358, 12395>>,  \* ように
     <<12424, 12358, 12394>>,  \* ような
     <<20309, 12391>>,  \* 何で
     <<20309, 12392>>,  \* 何と
     <<20309, 12363>>,  \* 何か
     <<35504, 12363>>,  \* 誰か
     <<12393, 12371, 12408>>,  \* どこへ
     <<12394, 12395, 12363>>,  \* なにか
     <<12384, 12428, 12363>>,  \* だれか
     <<12393, 12358, 12395>>,  \* どうに
     <<12394, 12435, 12363>>,  \* なんか
     <<12394, 12435, 12391>>,  \* なんで
     <<12394, 12435, 12392>>,  \* なんと
     <<25105, 12364>>,  \* 我が
     <<12431, 12364>>,  \* わが
     <<12390, 12363>>,  \* てか
     <<12392, 12375, 12390, 12418>>,  \* としても
     <<12384, 12369, 12393>>,  \* だけど
     <<12384, 12424, 12397>>,  \* だよね
     <<12384, 12363, 12425>>,  \* だから
     <<12384, 12387, 12390>>}  \* だって

\* words ending in da that are not split (suffix_splitting.py)
NO_SPLIT_DA_WORDS ==
    {<<12381, 12358, 12384>>,  \* そうだ
     <<12411, 12435, 12392, 12358, 12384>>,  \* ほんとうだ
     <<26412, 24403, 12384>>,  \* 本当だ
     <<12384, 12356, 12376, 12423, 12358, 12406, 12384>>,  \* だいじょうぶだ
     <<22823, 19976, 22827, 12384>>,  \* 大丈夫だ
     <<12399, 12384>>,  \* はだ
     <<32908>>}  \* 肌

\* base endings before an explanatory n (suffix_splitting.py)
N_SPLIT_BASE_ENDINGS ==
    {<<12356>>,  \* い
     <<12427>>,  \* る
     <<12383>>,  \* た
     <<12390>>,  \* て
     <<12384>>}  \* だ

\* words ending in n that are not split (suffix_splitting.py)
NO_SPLIT_N_WORDS ==
    {<<12373, 12435>>,  \* さん
     <<12367, 12435>>,  \* くん
     <<12385, 12419, 12435>>,  \* ちゃん
     <<12399, 12435>>,  \* はん
     <<12415, 12435, 12394>>,  \* みんな
     <<12380, 12435, 12406>>,  \* ぜんぶ
     <<20840, 37096>>,  \* 全部
     <<12411, 12435, 12392>>,  \* ほんと
     <<12411, 12435, 12392, 12358>>,  \* ほんとう
     <<26412, 24403>>,  \* 本当
     <<12358, 12435>>,  \* うん
     <<12405, 12435>>,  \* ふん
     <<12408, 12435>>,  \* へん
     <<22793>>,  \* 変
     <<12406, 12435>>,  \* ぶん
     <<20998>>,  \* 分
     <<12395, 12435>>,  \* にん
     <<20154>>,  \* 人
     <<12376, 12435>>,  \* じん
     <<12360, 12435>>,  \* えん
     <<20870>>,  \* 円
     <<12369, 12435>>,  \* けん
     <<20214>>,  \* 件
     <<12379, 12435>>,  \* せん
     <<21315>>,  \* 千
     <<12390, 12435>>,  \* てん
     <<28857>>,  \* 点
     <<12397, 12435>>,  \* ねん
     <<24180>>,  \* 年
     <<12409, 12435>>,  \* べん
     <<12417, 12435>>,  \* めん
     <<38754>>,  \* 面
     <<12370, 12435>>,  \* げん
     <<38480>>,  \* 限
     <<12394, 12435>>,  \* なん
     <<20309>>,  \* 何
     <<12371, 12435>>,  \* こん
     <<12381, 12435>>,  \* そん
     <<12354, 12435>>,  \* あん
     <<12393, 12435>>}  \* どん

\* particle compounds that stay merged (suffix_splitting.py)
MERGED_PARTICLE_COMPOUNDS ==
    {<<12395, 12388, 12365>>,  \* につき
     <<12395, 12390>>,  \* にて
     <<12395, 12418>>,  \* にも
     <<12395, 12399>>,  \* には
     <<12395, 12392>>,  \* にと
     <<12395, 12398>>,  \* にの
     <<12395, 12363>>,  \* にか
     <<12395, 12394>>,  \* にな
     <<12395, 12373>>,  \* にさ
     <<12408, 12398>>,  \* への
     <<12392, 12363>>,  \* とか
     <<12392, 12418>>,  \* とも
     <<12392, 12434>>,  \* とを
     <<12392, 12364>>,  \* とが
     <<12434, 12418>>,  \* をも
     <<12418, 12398>>,  \* もの
     <<12391, 12398>>,  \* での
     <<12391, 12418>>,  \* でも
     <<12363, 12425>>,  \* から
     <<12414, 12391>>,  \* まで
     <<12424, 12426>>,  \* より
     <<12411, 12393>>,  \* ほど
     <<12394, 12393>>,  \* など
     <<12384, 12369>>,  \* だけ
     <<12375, 12363>>,  \* しか
     <<12400, 12363, 12426>>,  \* ばかり
     <<12367, 12425, 12356>>,  \* くらい
     <<12368, 12425, 12356>>,  \* ぐらい
     <<12424, 12358, 12395>>}  \* ように

\* words split after their first character (suffix_splitting.py)
PREFIX_SPLIT_PATTERNS ==
    {<<12395, 12388, 12365, 12414, 12375, 12390>>,  \* につきまして
     <<12395, 12388, 12365>>,  \* につき
     <<12392, 12394, 12387, 12390>>,  \* となって
     <<12395, 12394, 12387, 12383>>,  \* になった
     <<12395, 12394, 12427>>,  \* になる
     <<12395, 12394, 12426, 12414, 12377>>,  \* になります
     <<12395, 12394, 12426, 12414, 12375, 12383>>,  \* になりました
     <<12391, 12354, 12387, 12383>>,  \* であった
     <<12391, 12354, 12429, 12358>>,  \* であろう
     <<12391, 12354, 12427>>,  \* である
     <<12391, 12399, 12394, 12356>>,  \* ではない
     <<12391, 12399, 12394, 12367>>,  \* ではなく
     <<12435, 12391, 12377>>,  \* んです
     <<12435, 12384>>,  \* んだ
     <<12435, 12384, 12369, 12393>>,  \* んだけど
     <<12435, 12384, 12424, 12397>>}  \* んだよね

\* particles split inside a word (none: the feature is disabled) (suffix_splitting.py)
INTERNAL_SPLIT_PARTICLES ==
    {}

\* compounds never split internally (suffix_splitting.py)
NO_INTERNAL_SPLIT_COMPOUNDS ==
    {<<28961, 29702, 12434, 12375, 12394, 12369, 12428, 12400>>,  \* 無理をしなければ
     <<28961, 29702, 12434, 12377, 12427>>,  \* 無理をする
     <<28961, 29702, 12434, 12375, 12390>>,  \* 無理をして
     <<26041, 37341, 12434, 22266, 12417, 12383>>,  \* 方針を固めた
     <<38651, 28304, 12434, 20999, 12387, 12390>>}  \* 電源を切って

\* suffixes merged onto the te-form of a suru compound (suffix_splitting.py)
TE_FORM_EXTENSIONS ==
    {<<12356, 12428, 12400>>,  \* いれば
     <<12356, 12383, 12425>>,  \* いたら
     <<12362, 12426, 12414, 12377>>,  \* おります
     <<12362, 12426, 12414, 12375, 12383>>,  \* おりました
     <<12362, 12356, 12390, 12367, 12384, 12373, 12356>>}  \* おいてください

\* the closed set of suru-able nouns (suffix_splitting.py)
SURU_COMPOUND_NOUNS ==
    {<<22793, 26356>>,  \* 変更
     <<38283, 22987>>,  \* 開始
     <<32066, 20102>>,  \* 終了
     <<30906, 35469>>,  \* 確認
     <<20837, 21147>>,  \* 入力
     <<20986, 21147>>,  \* 出力
     <<35373, 23450>>,  \* 設定
     <<21066, 38500>>,  \* 削除
     <<26053, 34892>>,  \* 旅行
     <<21193, 24375>>,  \* 勉強
     <<32244, 32722>>,  \* 練習
     <<36939, 21205>>,  \* 運動
     <<20181, 20107>>,  \* 仕事
     <<36890, 21220>>,  \* 通勤
     <<20986, 21220>>,  \* 出勤
     <<36864, 21220>>,  \* 退勤
     <<22833, 25943>>,  \* 失敗
     <<25104, 21151>>,  \* 成功
     <<36948, 25104>>,  \* 達成
     <<23436, 25104>>,  \* 完成
     <<23436, 20102>>,  \* 完了
     <<27770, 23450>>,  \* 決定
     <<20104, 23450>>,  \* 予定
     <<35336, 30011>>,  \* 計画
     <<28310, 20633>>,  \* 準備
     <<23550, 24540>>,  \* 対応
     <<23550, 31574>>,  \* 対策
     <<35500, 26126>>,  \* 説明
     <<22577, 21578>>,  \* 報告
     <<36899, 32097>>,  \* 連絡
     <<30456, 35527>>,  \* 相談
     <<36074, 21839>>,  \* 質問
     <<22238, 31572>>,  \* 回答
     <<35299, 31572>>,  \* 解答
     <<22238, 24489>>,  \* 回復
     <<20462, 24489>>,  \* 修復
     <<20462, 27491>>,  \* 修正
     <<26356, 26032>>,  \* 更新
     <<22793, 25563>>,  \* 変換
     <<36865, 20449>>,  \* 送信
     <<21463, 20449>>,  \* 受信
     <<36865, 20184>>,  \* 送付
     <<21463, 20184>>,  \* 受付
     <<30330, 34920>>,  \* 発表
     <<30330, 22770>>,  \* 発売
     <<30330, 36865>>,  \* 発送
     <<21463, 27880>>,  \* 受注
     <<30330, 27880>>,  \* 発注
     <<23455, 29694>>,  \* 実現
     <<23455, 34892>>,  \* 実行
     <<23455, 26045>>,  \* 実施
     <<23566, 20837>>,  \* 導入
     <<27963, 29992>>,  \* 活用
     <<21033, 29992>>,  \* 利用
     <<20351, 29992>>,  \* 使用
     <<25505, 29992>>,  \* 採用
     <<35469, 35672>>,  \* 認識
     <<35469, 35388>>,  \* 認証
     <<35388, 26126>>,  \* 証明
     <<30906, 23450>>,  \* 確定
     <<25215, 35469>>,  \* 承認
     <<35377, 21487>>,  \* 許可
     <<25298, 21542>>,  \* 拒否
     <<21516, 24847>>,  \* 同意
     <<36933, 21051>>,  \* 遅刻
     <<26089, 36864>>,  \* 早退
     <<27424, 24109>>,  \* 欠席
     <<20986, 24109>>,  \* 出席
     <<21442, 21152>>,  \* 参加
     <<21442, 29031>>,  \* 参照
     <<26908, 32034>>,  \* 検索
     <<26908, 35342>>,  \* 検討
     <<24515, 37197>>,  \* 心配
     <<27880, 24847>>,  \* 注意
     <<35251, 23519>>,  \* 観察
     <<30435, 35222>>,  \* 監視
     <<35519, 26619>>,  \* 調査
     <<35519, 25972>>,  \* 調整
     <<25972, 29702>>,  \* 整理
     <<20998, 26512>>,  \* 分析
     <<32080, 23130>>,  \* 結婚
     <<38626, 23130>>,  \* 離婚
     <<20837, 23398>>,  \* 入学
     <<21330, 26989>>,  \* 卒業
     <<20837, 31038>>,  \* 入社
     <<36864, 31038>>,  \* 退社
     <<23601, 32887>>,  \* 就職
     <<36578, 32887>>,  \* 転職
     <<24341, 36234>>,  \* 引越
     <<24341, 12387, 36234, 12375>>,  \* 引っ越し
     <<31227, 21205>>,  \* 移動
     <<31227, 36578>>,  \* 移転
     <<36664, 20837>>,  \* 輸入
     <<36664, 20986>>,  \* 輸出
     <<36939, 36865>>,  \* 運送
     <<37197, 36865>>,  \* 配送
     <<39135, 20107>>,  \* 食事
     <<25475, 38500>>,  \* 掃除
     <<27927, 28655>>,  \* 洗濯
     <<26009, 29702>>,  \* 料理
     <<25955, 27497>>,  \* 散歩
     <<36023, 29289>>,  \* 買物
     <<36023, 12356, 29289>>,  \* 買い物
     <<30331, 37682>>,  \* 登録
     <<35299, 38500>>,  \* 解除
     <<20572, 27490>>,  \* 停止
     <<38283, 25918>>,  \* 開放
     <<35299, 25918>>,  \* 解放
     <<32080, 21512>>,  \* 結合
     <<20998, 38626>>,  \* 分離
     <<30701, 32302>>,  \* 短縮
     <<12480, 12454, 12531, 12525, 12540, 12489>>,  \* ダウンロード
     <<25506, 32034>>,  \* 探索
     <<25915, 30053>>,  \* 攻略
     <<12463, 12522, 12450>>,  \* クリア
     <<12524, 12505, 12523, 12450, 12483, 12503>>,  \* レベルアップ
     <<30330, 29983>>,  \* 発生
     <<19979, 33853>>,  \* 下落
     <<25509, 36817>>,  \* 接近
     <<21542, 35469>>,  \* 否認
     <<19978, 26119>>,  \* 上昇
     <<22311, 36843>>,  \* 圧迫
     <<20877, 38283>>,  \* 再開
     <<25913, 38761>>,  \* 改革
     <<35696, 35542>>,  \* 議論
     <<22679, 21152>>,  \* 増加
     <<25080, 24565>>,  \* 懸念
     <<26222, 21450>>,  \* 普及
     <<24375, 21270>>,  \* 強化
     <<37325, 35222>>,  \* 重視
     <<25313, 22823>>,  \* 拡大
     <<21066, 28187>>,  \* 削減
     <<25512, 36914>>,  \* 推進
     <<32004, 26463>>,  \* 約束
     <<26045, 34892>>,  \* 施行
     <<24460, 25276, 12375>>,  \* 後押し
     <<36969, 29992>>,  \* 適用
     <<35211, 30452, 12375>>,  \* 見直し
     <<38627, 33322>>,  \* 難航
     <<21512, 24847>>,  \* 合意
     <<26399, 24453>>,  \* 期待
     <<26412, 26684, 21270>>,  \* 本格化
     <<37325, 35201, 35222>>,  \* 重要視
     <<31649, 29702>>}  \* 管理

\* forms of suru merged onto a suru-able noun (suffix_splitting.py)
SURU_FORMS ==
    {<<12377, 12427>>,  \* する
     <<12375, 12414, 12377>>,  \* します
     <<12375, 12383>>,  \* した
     <<12375, 12414, 12375, 12383>>,  \* しました
     <<12375, 12390>>,  \* して
     <<12375, 12394, 12356>>,  \* しない
     <<12375, 12414, 12379, 12435>>,  \* しません
     <<12375, 12424, 12358>>,  \* しよう
     <<12375, 12414, 12375, 12423, 12358>>,  \* しましょう
     <<12377, 12428, 12400>>,  \* すれば
     <<12375, 12383, 12356>>,  \* したい
     <<12375, 12383, 12367, 12394, 12356>>,  \* したくない
     <<12391, 12365, 12427>>,  \* できる
     <<12391, 12365, 12414, 12377>>,  \* できます
     <<12391, 12365, 12394, 12356>>,  \* できない
     <<12391, 12365, 12414, 12379, 12435>>,  \* できません
     <<12375, 12383, 12425>>,  \* したら
     <<12375, 12383, 12392, 12365>>,  \* したとき
     <<12375, 12390, 12427>>,  \* してる
     <<12375, 12390, 12356, 12427>>,  \* している
     <<12375, 12390, 12356, 12383>>,  \* していた
     <<12375, 12390, 12356, 12414, 12375, 12383>>,  \* していました
     <<12375, 12390, 12363, 12425>>,  \* してから
     <<12375, 12390, 12375, 12414, 12358>>,  \* してしまう
     <<12375, 12390, 12375, 12414, 12387, 12383>>,  \* してしまった
     <<12375, 12390, 12375, 12414, 12356, 12414, 12375, 12383>>,  \* してしまいました
     <<12375, 12414, 12375, 12383, 12425>>,  \* しましたら
     <<12377, 12409, 12365>>,  \* すべき
     <<12375, 12390, 12356, 12428, 12400>>,  \* していれば
     <<12375, 12390, 12356, 12383, 12425>>,  \* していたら
     <<12375, 12390, 12362, 12367>>,  \* しておく
     <<12375, 12390, 12362, 12356, 12390>>,  \* しておいて
     <<12375, 12390, 12362, 12356, 12390, 12367, 12384, 12373, 12356>>,  \* しておいてください
     <<12375, 12390, 12362, 12426, 12414, 12377>>,  \* しております
     <<12375, 12390, 12362, 12426, 12414, 12375, 12383>>,  \* しておりました
     <<12356, 12383, 12375, 12414, 12377>>,  \* いたします
     <<12356, 12383, 12375, 12414, 12375, 12383>>,  \* いたしました
     <<12356, 12383, 12377>>,  \* いたす
     <<12356, 12383, 12375, 12414, 12375, 12390>>,  \* いたしまして
     <<12356, 12383, 12375, 12414, 12379, 12435>>,  \* いたしません
     <<12373, 12379, 12390, 12367, 12384, 12373, 12356>>,  \* させてください
     <<12373, 12379, 12390, 12356, 12383, 12384, 12367>>,  \* させていただく
     <<12373, 12379, 12390, 12356, 12383, 12384, 12365, 12414, 12377>>,  \* させていただきます
     <<12373, 12379, 12414, 12377>>,  \* させます
     <<12373, 12379, 12427>>,  \* させる
     <<12373, 12428, 12427>>,  \* される
     <<12373, 12428, 12414, 12377>>,  \* されます
     <<12373, 12428, 12383>>,  \* された
     <<12373, 12428, 12414, 12375, 12383>>,  \* されました
     <<12373, 12428, 12390, 12356, 12427>>,  \* されている
     <<12373, 12428, 12390, 12356, 12383>>,  \* されていた
     <<12373, 12428, 12390, 12356, 12414, 12375, 12383>>,  \* されていました
     <<12373, 12428, 12390, 12356, 12394, 12356>>,  \* されていない
     <<12373, 12428, 12390, 12356, 12394, 12363, 12387, 12383>>}  \* されていなかった

\* literal merges applied after the splits, in source order (suffix_splitting.py)
MERGE_PATTERNS ==
    <<<<<<<<12391, 12399>>, <<12394, 12356>>>>, <<12391, 12399, 12394, 12356>>>>,  \* では|ない -> ではない
      <<<<<<12391, 12399>>, <<12394, 12367>>>>, <<12391, 12399, 12394, 12367>>>>,  \* では|なく -> ではなく
      <<<<<<12362, 21223, 12417>>, <<12375, 12414, 12377>>>>, <<12362, 21223, 12417, 12375, 12414, 12377>>>>,  \* お勧め|します -> お勧めします
      <<<<<<12384>>, <<12369, 12393>>>>, <<12384, 12369, 12393>>>>,  \* だ|けど -> だけど
      <<<<<<12384>>, <<12424, 12397>>>>, <<12384, 12424, 12397>>>>,  \* だ|よね -> だよね
      <<<<<<30693, 12387, 12390>>, <<12356, 12383, 12425>>>>, <<30693, 12387, 12390, 12356, 12383, 12425>>>>,  \* 知って|いたら -> 知っていたら
      <<<<<<36215, 12365, 12390>>, <<12356, 12383, 12425>>>>, <<36215, 12365, 12390, 12356, 12383, 12425>>>>,  \* 起きて|いたら -> 起きていたら
      <<<<<<12395>>, <<12399>>>>, <<12395, 12399>>>>,  \* に|は -> には
      <<<<<<12391>>, <<12399>>>>, <<12391, 12399>>>>,  \* で|は -> では
      <<<<<<12392>>, <<12399>>>>, <<12392, 12399>>>>,  \* と|は -> とは
      <<<<<<39135, 12409, 12390>>, <<12418, 12425, 12360, 12394, 12363, 12387, 12383>>>>, <<39135, 12409, 12390, 12418, 12425, 12360, 12394, 12363, 12387, 12383>>>>,  \* 食べて|もらえなかった -> 食べてもらえなかった
      <<<<<<39135, 12409, 12390>>, <<12418, 12425, 12387, 12383>>>>, <<39135, 12409, 12390, 12418, 12425, 12387, 12383>>>>,  \* 食べて|もらった -> 食べてもらった
      <<<<<<39135, 12409, 12390>>, <<12418, 12425, 12358>>>>, <<39135, 12409, 12390, 12418, 12425, 12358>>>>,  \* 食べて|もらう -> 食べてもらう
      <<<<<<39135, 12409, 12390>>, <<12418, 12425, 12360, 12427>>>>, <<39135, 12409, 12390, 12418, 12425, 12360, 12427>>>>>>  \* 食べて|もらえる -> 食べてもらえる

\* explicit splits: <<word>> -> parts (suffix_splitting.py)
COMPOUND_VERB_SPLITS ==
    <<<<<<<<12362, 39000, 12356, 30003, 12375, 19978, 12370, 12414, 12377>>>>, <<<<12362, 39000, 12356>>, <<30003, 12375, 19978, 12370, 12414, 12377>>>>>>,  \* お願い申し上げます -> お願い|申し上げます
      <<<<<<25945, 12360, 12390, 12354, 12370, 12383>>>>, <<<<25945, 12360, 12390>>, <<12354, 12370, 12383>>>>>>,  \* 教えてあげた -> 教えて|あげた
      <<<<<<25945, 12360, 12390, 12354, 12370, 12427>>>>, <<<<25945, 12360, 12390>>, <<12354, 12370, 12427>>>>>>,  \* 教えてあげる -> 教えて|あげる
      <<<<<<12392, 35328, 12431, 12428, 12390, 12356, 12427>>>>, <<<<12392>>, <<35328, 12431, 12428, 12390, 12356, 12427>>>>>>>>  \* と言われている -> と|言われている

\* token substitutions, in dict order: pattern -> replacement (suffix_splitting.py)
TOKEN_SUBSTITUTIONS ==
    <<<<<<<<20170, 26085, 12399>>>>, <<<<20170, 26085>>, <<12399>>>>>>,  \* 今日は -> 今日|は
      <<<<<<12398, 12379>>, <<12356, 12384>>>>, <<<<12398>>, <<12379, 12356>>, <<12384>>>>>>,  \* のせ|いだ -> の|せい|だ
      <<<<<<24444, 12398>>>>, <<<<24444>>, <<12398>>>>>>,  \* 彼の -> 彼|の
      <<<<<<24444, 22899, 12398>>>>, <<<<24444, 22899>>, <<12398>>>>>>,  \* 彼女の -> 彼女|の
      <<<<<<23665, 12398, 38914>>, <<19978>>>>, <<<<23665>>, <<12398>>, <<38914, 19978>>>>>>,  \* 山の頂|上 -> 山|の|頂上
      <<<<<<12354, 12370>>, <<12383, 12356>>>>, <<<<12354, 12370, 12383, 12356>>>>>>,  \* あげ|たい -> あげたい
      <<<<<<12418, 12425, 12360>>, <<12394, 12363, 12387, 12383>>>>, <<<<12418, 12425, 12360, 12394, 12363, 12387, 12383>>>>>>,  \* もらえ|なかった -> もらえなかった
      <<<<<<12381, 12358, 12363, 12418, 12375, 12428, 12394, 12356>>>>, <<<<12381, 12358>>, <<12363, 12418, 12375, 12428, 12394, 12356>>>>>>,  \* そうかもしれない -> そう|かもしれない
      <<<<<<38996>>, <<12434, 12375, 12390, 12356, 12383>>>>, <<<<38996>>, <<12434>>, <<12375, 12390, 12356, 12383>>>>>>,  \* 顔|をしていた -> 顔|を|していた
      <<<<<<34180>>, <<26263>>, <<12367>>>>, <<<<34180, 26263, 12367>>>>>>,  \* 薄|暗|く -> 薄暗く
      <<<<<<34180>>, <<26263, 12367>>>>, <<<<34180, 26263, 12367>>>>>>,  \* 薄|暗く -> 薄暗く
      <<<<<<34180>>, <<26263, 12356>>>>, <<<<34180, 26263, 12356>>>>>>,  \* 薄|暗い -> 薄暗い
      <<<<<<32771, 12360>>, <<12390, 12435>>>>, <<<<32771, 12360, 12390>>, <<12435>>>>>>,  \* 考え|てん -> 考えて|ん
      <<<<<<35328>>, <<12431>>, <<12378, 12395>>>>, <<<<35328, 12431, 12378>>, <<12395>>>>>>,  \* 言|わ|ずに -> 言わず|に
      <<<<<<20307, 12434, 22730, 12373, 12394, 12363, 12387, 12383>>>>, <<<<20307>>, <<12434>>, <<22730, 12373, 12394, 12363, 12387, 12383>>>>>>,  \* 体を壊さなかった -> 体|を|壊さなかった
      <<<<<<12391, 12365, 12427, 12424, 12358, 12395, 12394, 12387, 12383>>>>, <<<<12391, 12365, 12427>>, <<12424, 12358, 12395, 12394, 12387, 12383>>>>>>,  \* できるようになった -> できる|ようになった
      <<<<<<20986>>, <<12425, 12428, 12394, 12363, 12387, 12383>>>>, <<<<20986, 12425, 12428, 12394, 12363, 12387, 12383>>>>>>,  \* 出|られなかった -> 出られなかった
      <<<<<<12377, 12428, 12400, 12377, 12427, 12411, 12393>>>>, <<<<12377, 12428, 12400>>, <<12377, 12427>>, <<12411, 12393>>>>>>,  \* すればするほど -> すれば|する|ほど
      <<<<<<39135, 12409>>, <<12373>>, <<12379, 12425, 12428, 12383>>>>, <<<<39135, 12409, 12373, 12379, 12425, 12428, 12383>>>>>>,  \* 食べ|さ|せられた -> 食べさせられた
      <<<<<<12398, 12363>>, <<12394>>>>, <<<<12398>>, <<12363, 12394>>>>>>,  \* のか|な -> の|かな
      <<<<<<12394, 12435, 12392, 12363, 12394, 12427>>>>, <<<<12394, 12435, 12392, 12363>>, <<12394, 12427>>>>>>,  \* なんとかなる -> なんとか|なる
      <<<<<<32771, 12360>>, <<12394, 12369, 12428, 12400, 12394, 12425, 12394, 12356>>>>, <<<<32771, 12360, 12394, 12369, 12428, 12400>>, <<12394, 12425, 12394, 12356>>>>>>,  \* 考え|なければならない -> 考えなければ|ならない
      <<<<<<21028>>, <<26029, 12434, 19979, 12377>>>>, <<<<21028, 26029>>, <<12434>>, <<19979, 12377>>>>>>,  \* 判|断を下す -> 判断|を|下す
      <<<<<<12424, 12358>>, <<12395>>>>, <<<<12424, 12358, 12395>>>>>>,  \* よう|に -> ように
      <<<<<<24515, 37197, 12434, 12363, 12369, 12373, 12379, 12390>>, <<12375, 12414, 12387, 12390>>>>, <<<<24515, 37197, 12434, 12363, 12369, 12373, 12379, 12390, 12375, 12414, 12387, 12390>>>>>>,  \* 心配をかけさせて|しまって -> 心配をかけさせてしまって
      <<<<<<23487>>, <<39365, 12395, 27490, 12414, 12426, 12414, 12377>>>>, <<<<23487, 39365>>, <<12395>>, <<27490, 12414, 12426, 12414, 12377>>>>>>,  \* 宿|駅に止まります -> 宿駅|に|止まります
      <<<<<<30423>>, <<12414>>, <<12428, 12383>>>>, <<<<30423, 12414, 12428, 12383>>>>>>,  \* 盗|ま|れた -> 盗まれた
      <<<<<<24453>>, <<12383>>, <<12373, 12428, 12383>>>>, <<<<24453, 12383, 12373, 12428, 12383>>>>>>,  \* 待|た|された -> 待たされた
      <<<<<<26368, 36817>>, <<12393, 12358, 12375, 12390>>, <<12427>>>>, <<<<26368, 36817, 12393, 12358>>, <<12375, 12390, 12427>>>>>>,  \* 最近|どうして|る -> 最近どう|してる
      <<<<<<20474>>, <<12383, 12385>>>>, <<<<20474, 12383, 12385>>>>>>,  \* 俺|たち -> 俺たち
      <<<<<<23432, 12426>>, <<12383, 12356>>>>, <<<<23432, 12426, 12383, 12356>>>>>>,  \* 守り|たい -> 守りたい
      <<<<<<12418, 12398>>, <<12364>>, <<12354, 12427>>>>, <<<<12418, 12398, 12364, 12354, 12427>>>>>>,  \* もの|が|ある -> ものがある
      <<<<<<24375>>, <<12367>>, <<12394, 12428, 12427>>>>, <<<<24375, 12367, 12394, 12428, 12427>>>>>>,  \* 強|く|なれる -> 強くなれる
      <<<<<<35558, 12417, 12427, 12394>>>>, <<<<35558, 12417, 12427>>, <<12394>>>>>>,  \* 諦めるな -> 諦める|な
      <<<<<<12375, 12390>>, <<12394, 12356>>>>, <<<<12375, 12390, 12394, 12356>>>>>>,  \* して|ない -> してない
      <<<<<<12469, 12508>>, <<12387, 12385, 12419, 12387, 12383>>>>, <<<<12469, 12508, 12387, 12385, 12419, 12387, 12383>>>>>>,  \* サボ|っちゃった -> サボっちゃった
      <<<<<<24594>>, <<12425, 12428, 12383>>>>, <<<<24594, 12425, 12428, 12383>>>>>>,  \* 怒|られた -> 怒られた
      <<<<<<35211, 12379, 12390>>, <<12367, 12428, 12394, 12356>>>>, <<<<35211, 12379, 12390, 12367, 12428, 12394, 12356>>>>>>,  \* 見せて|くれない -> 見せてくれない
      <<<<<<24536, 12428>>, <<29289, 12375, 12383>>>>, <<<<24536, 12428, 29289>>, <<12375, 12383>>>>>>,  \* 忘れ|物した -> 忘れ物|した
      <<<<<<22238, 24489, 12450, 12452, 12486, 12512>>>>, <<<<22238, 24489>>, <<12450, 12452, 12486, 12512>>>>>>,  \* 回復アイテム -> 回復|アイテム
      <<<<<<12363, 12425>>, <<12395, 12399>>>>, <<<<12363, 12425, 12395, 12399>>>>>>,  \* から|には -> からには
      <<<<<<32004, 26463>>, <<12375, 12383>>>>, <<<<32004, 26463, 12375, 12383>>>>>>,  \* 約束|した -> 約束した
      <<<<<<20250, 12360>>, <<12383, 12397>>>>, <<<<20250, 12360, 12383>>, <<12397>>>>>>,  \* 会え|たね -> 会えた|ね
      <<<<<<12373, 12377>>, <<12364>>>>, <<<<12373, 12377, 12364>>>>>>,  \* さす|が -> さすが
      <<<<<<24605, 12387, 12383>>, <<12392, 12362, 12426>>>>, <<<<24605, 12387, 12383>>, <<12392>>, <<12362, 12426>>>>>>,  \* 思った|とおり -> 思った|と|おり
      <<<<<<12392, 12394, 12426, 12414, 12375, 12383>>>>, <<<<12392>>, <<12394, 12426, 12414, 12375, 12383>>>>>>,  \* となりました -> と|なりました
      <<<<<<12392, 12394, 12387, 12390, 12356, 12427>>>>, <<<<12392>>, <<12394, 12387, 12390, 12356, 12427>>>>>>,  \* となっている -> と|なっている
      <<<<<<21313, 20108>>, <<21495>>>>, <<<<21313, 20108, 21495>>>>>>,  \* 十二|号 -> 十二号
      <<<<<<12392>>, <<12398>>, <<12371, 12392>>>>, <<<<12392, 12398, 12371, 12392>>>>>>,  \* と|の|こと -> とのこと
      <<<<<<30906, 35469>>, <<12373, 12428, 12414, 12375, 12383>>>>, <<<<30906, 35469, 12373, 12428, 12414, 12375, 12383>>>>>>,  \* 確認|されました -> 確認されました
      <<<<<<35696, 35542>>, <<12373, 12428, 12390, 12356, 12427>>>>, <<<<35696, 35542, 12373, 12428, 12390, 12356, 12427>>>>>>,  \* 議論|されている -> 議論されている
      <<<<<<25080, 24565>>, <<12373, 12428, 12390, 12356, 12427>>>>, <<<<25080, 24565, 12373, 12428, 12390, 12356, 12427>>>>>>,  \* 懸念|されている -> 懸念されている
      <<<<<<20877, 38283>>, <<12373, 12428, 12414, 12375, 12383>>>>, <<<<20877, 38283, 12373, 12428, 12414, 12375, 12383>>>>>>,  \* 再開|されました -> 再開されました
      <<<<<<24375, 21270>>, <<12373, 12428, 12390, 12356, 12427>>>>, <<<<24375, 21270, 12373, 12428, 12390, 12356, 12427>>>>>>,  \* 強化|されている -> 強化されている
      <<<<<<23455, 26045>>, <<12373, 12428, 12390, 12356, 12427>>>>, <<<<23455, 26045, 12373, 12428, 12390, 12356, 12427>>>>>>,  \* 実施|されている -> 実施されている
      <<<<<<38283, 22987>>, <<12373, 12428, 12414, 12375, 12383>>>>, <<<<38283, 22987, 12373, 12428, 12414, 12375, 12383>>>>>>,  \* 開始|されました -> 開始されました
      <<<<<<26045, 34892>>, <<12373, 12428, 12414, 12375, 12383>>>>, <<<<26045, 34892, 12373, 12428, 12414, 12375, 12383>>>>>>,  \* 施行|されました -> 施行されました
      <<<<<<36969, 29992>>, <<12373, 12428, 12427>>>>, <<<<36969, 29992, 12373, 12428, 12427>>>>>>,  \* 適用|される -> 適用される
      <<<<<<26908, 35342>>, <<12373, 12428, 12390, 12356, 12427>>>>, <<<<26908, 35342, 12373, 12428, 12390, 12356, 12427>>>>>>,  \* 検討|されている -> 検討されている
      <<<<<<21512, 24847>>, <<12373, 12428, 12383>>>>, <<<<21512, 24847, 12373, 12428, 12383>>>>>>,  \* 合意|された -> 合意された
      <<<<<<26399, 24453>>, <<12373, 12428, 12390, 12356, 12427>>>>, <<<<26399, 24453, 12373, 12428, 12390, 12356, 12427>>>>>>,  \* 期待|されている -> 期待されている
      <<<<<<38283, 22987>>, <<12373, 12428, 12383>>>>, <<<<38283, 22987, 12373, 12428, 12383>>>>>>,  \* 開始|された -> 開始された
      <<<<<<24460, 25276, 12375>>, <<12375, 12390, 12356, 12427>>>>, <<<<24460, 25276, 12375, 12375, 12390, 12356, 12427>>>>>>,  \* 後押し|している -> 後押ししている
      <<<<<<38627, 33322>>, <<12375, 12390, 12356, 12427>>>>, <<<<38627, 33322, 12375, 12390, 12356, 12427>>>>>>,  \* 難航|している -> 難航している
      <<<<<<26412, 26684, 21270>>, <<12375, 12390, 12356, 12427>>>>, <<<<26412, 26684, 21270, 12375, 12390, 12356, 12427>>>>>>,  \* 本格化|している -> 本格化している
      <<<<<<37325, 35201>>, <<35222, 12373, 12428, 12390, 12356, 12427>>>>, <<<<37325, 35201, 35222, 12373, 12428, 12390, 12356, 12427>>>>>>,  \* 重要|視されている -> 重要視されている
      <<<<<<25506, 32034>>, <<12377, 12427>>>>, <<<<25506, 32034, 12377, 12427>>>>>>,  \* 探索|する -> 探索する
      <<<<<<25915, 30053>>, <<12375, 12424, 12358>>>>, <<<<25915, 30053, 12375, 12424, 12358>>>>>>,  \* 攻略|しよう -> 攻略しよう
      <<<<<<35211, 12383>>, <<12356>>>>, <<<<35211, 12383, 12356>>>>>>,  \* 見た|い -> 見たい
      <<<<<<12381, 12428>>, <<12399>>, <<12394, 12356>>>>, <<<<12381, 12428, 12399, 12394, 12356>>>>>>,  \* それ|は|ない -> それはない
      <<<<<<35328, 12387, 12390>>, <<12427>>>>, <<<<35328, 12387, 12390, 12427>>>>>>,  \* 言って|る -> 言ってる
      <<<<<<12356, 12390>>, <<12367, 12428, 12390>>>>, <<<<12356, 12390, 12367, 12428, 12390>>>>>>,  \* いて|くれて -> いてくれて
      <<<<<<12356, 12390>>, <<12367, 12428, 12383>>>>, <<<<12356, 12390, 12367, 12428, 12383>>>>>>,  \* いて|くれた -> いてくれた
      <<<<<<20998, 12363, 12387, 12390>>, <<12367, 12428, 12394, 12356>>>>, <<<<20998, 12363, 12387, 12390, 12367, 12428, 12394, 12356>>>>>>,  \* 分かって|くれない -> 分かってくれない
      <<<<<<20449, 12376, 12390>>, <<12367, 12428, 12394, 12356>>>>, <<<<20449, 12376, 12390, 12367, 12428, 12394, 12356>>>>>>,  \* 信じて|くれない -> 信じてくれない
      <<<<<<35377, 12375, 12390>>, <<12418, 12425, 12360, 12414, 12377>>>>, <<<<35377, 12375, 12390, 12418, 12425, 12360, 12414, 12377>>>>>>,  \* 許して|もらえます -> 許してもらえます
      <<<<<<35613, 12387, 12390>>, <<12418>>>>, <<<<35613, 12387, 12390, 12418>>>>>>,  \* 謝って|も -> 謝っても
      <<<<<<12418, 12358>>, <<19968, 24230>>>>, <<<<12418, 12358, 19968, 24230>>>>>>,  \* もう|一度 -> もう一度
      <<<<<<24517, 35201>>, <<12394>>, <<12398>>>>, <<<<24517, 35201>>, <<12394, 12398>>>>>>,  \* 必要|な|の -> 必要|なの
      <<<<<<36317, 38626, 12434, 32622, 12365, 12414, 12375, 12423, 12358>>>>, <<<<36317, 38626>>, <<12434>>, <<32622, 12365, 12414, 12375, 12423, 12358>>>>>>,  \* 距離を置きましょう -> 距離|を|置きましょう
      <<<<<<21313>>, <<20108, 21495>>>>, <<<<21313, 20108, 21495>>>>>>,  \* 十|二号 -> 十二号
      <<<<<<26412>>, <<24403, 12398>>>>, <<<<26412, 24403>>, <<12398>>>>>>,  \* 本|当の -> 本当|の
      <<<<<<20877, 29983, 21487, 33021, 12456, 12493, 12523, 12462, 12540>>>>, <<<<20877, 29983, 21487, 33021>>, <<12456, 12493, 12523, 12462, 12540>>>>>>,  \* 再生可能エネルギー -> 再生可能|エネルギー
      <<<<<<12503, 12521, 12473, 12481, 12483, 12463, 12372, 12415>>>>, <<<<12503, 12521, 12473, 12481, 12483, 12463>>, <<12372, 12415>>>>>>,  \* プラスチックごみ -> プラスチック|ごみ
      <<<<<<25552, 20986>>, <<12375, 12390, 12367, 12384, 12373, 12356>>>>, <<<<25552, 20986, 12375, 12390, 12367, 12384, 12373, 12356>>>>>>,  \* 提出|してください -> 提出してください
      <<<<<<24505, 24213>>, <<12375, 12390, 12367, 12384, 12373, 12356>>>>, <<<<24505, 24213, 12375, 12390, 12367, 12384, 12373, 12356>>>>>>,  \* 徹底|してください -> 徹底してください
      <<<<<<36899, 32097>>, <<12375, 12390, 12367, 12384, 12373, 12356>>>>, <<<<36899, 32097, 12375, 12390, 12367, 12384, 12373, 12356>>>>>>,  \* 連絡|してください -> 連絡してください
      <<<<<<20966, 26041>>, <<12375, 12414, 12377>>>>, <<<<20966, 26041, 12375, 12414, 12377>>>>>>,  \* 処方|します -> 処方します
      <<<<<<35531, 27714>>, <<12375, 12414, 12377>>>>, <<<<35531, 27714, 12375, 12414, 12377>>>>>>,  \* 請求|します -> 請求します
      <<<<<<36910, 25429>>, <<12375, 12414, 12377>>>>, <<<<36910, 25429, 12375, 12414, 12377>>>>>>,  \* 逮捕|します -> 逮捕します
      <<<<<<34892, 20351>>, <<12375, 12414, 12377>>>>, <<<<34892, 20351, 12375, 12414, 12377>>>>>>,  \* 行使|します -> 行使します
      <<<<<<20986, 25152>>, <<12375, 12414, 12375, 12383>>>>, <<<<20986, 25152, 12375, 12414, 12375, 12383>>>>>>,  \* 出所|しました -> 出所しました
      <<<<<<26908, 35342>>, <<12375, 12414, 12377>>>>, <<<<26908, 35342, 12375, 12414, 12377>>>>>>,  \* 検討|します -> 検討します
      <<<<<<33258, 39318>>, <<12377, 12427>>>>, <<<<33258, 39318, 12377, 12427>>>>>>,  \* 自首|する -> 自首する
      <<<<<<21453, 23550>>, <<12377, 12427>>>>, <<<<21453, 23550, 12377, 12427>>>>>>,  \* 反対|する -> 反対する
      <<<<<<36059, 25104>>, <<12375, 12424, 12358>>>>, <<<<36059, 25104, 12375, 12424, 12358>>>>>>,  \* 賛成|しよう -> 賛成しよう
      <<<<<<12469, 12452, 12531>>, <<12375, 12390>>>>, <<<<12469, 12452, 12531, 12375, 12390>>>>>>,  \* サイン|して -> サインして
      <<<<<<26356, 29983>>, <<12375, 12390>>>>, <<<<26356, 29983, 12375, 12390>>>>>>,  \* 更生|して -> 更生して
      <<<<<<21029, 12428>>, <<12383, 12367, 12394, 12356>>>>, <<<<21029, 12428, 12383, 12367, 12394, 12356>>>>>>,  \* 別れ|たくない -> 別れたくない
      <<<<<<25147, 12426>>, <<12383, 12356>>>>, <<<<25147, 12426, 12383, 12356>>>>>>,  \* 戻り|たい -> 戻りたい
      <<<<<<36766, 12417, 12383>>, <<12356>>>>, <<<<36766, 12417, 12383, 12356>>>>>>,  \* 辞めた|い -> 辞めたい
      <<<<<<20250, 31038, 12434, 36766, 12417, 12383>>, <<12356>>, <<12435>>, <<12391, 12377>>>>, <<<<20250, 31038, 12434, 36766, 12417, 12383, 12356>>, <<12435>>, <<12391, 12377>>>>>>,  \* 会社を辞めた|い|ん|です -> 会社を辞めたい|ん|です
      <<<<<<35613, 32618>>, <<12375, 12383, 12356>>>>, <<<<35613, 32618, 12375, 12383, 12356>>>>>>,  \* 謝罪|したい -> 謝罪したい
      <<<<<<34892, 12365>>, <<12383, 12367, 12394, 12356>>>>, <<<<34892, 12365, 12383, 12367, 12394, 12356>>>>>>,  \* 行き|たくない -> 行きたくない
      <<<<<<12461, 12515, 12531, 12475, 12523>>, <<12375, 12383, 12356>>>>, <<<<12461, 12515, 12531, 12475, 12523, 12375, 12383, 12356>>>>>>,  \* キャンセル|したい -> キャンセルしたい
      <<<<<<24460, 24724>>, <<12375, 12390>>, <<12418>>>>, <<<<24460, 24724, 12375, 12390, 12418>>>>>>,  \* 後悔|して|も -> 後悔しても
      <<<<<<35500, 26126>>, <<12375, 12390>>, <<12418>>>>, <<<<35500, 26126, 12375, 12390, 12418>>>>>>,  \* 説明|して|も -> 説明しても
      <<<<<<38929, 24373, 12387, 12390>>, <<12418>>>>, <<<<38929, 24373, 12387, 12390, 12418>>>>>>,  \* 頑張って|も -> 頑張っても
      <<<<<<22833, 25943>>, <<12375, 12390>>, <<12418>>>>, <<<<22833, 25943, 12375, 12390, 12418>>>>>>,  \* 失敗|して|も -> 失敗しても
      <<<<<<12354, 12387, 12390>>, <<12418>>>>, <<<<12354, 12387, 12390, 12418>>>>>>,  \* あって|も -> あっても
      <<<<<<35613, 12387, 12383>>, <<12392, 12371, 12429>>, <<12391>>>>, <<<<35613, 12387, 12383>>, <<12392, 12371, 12429, 12391>>>>>>,  \* 謝った|ところ|で -> 謝った|ところで
      <<<<<<27875, 12356, 12383>>, <<12392, 12371, 12429>>, <<12391>>>>, <<<<27875, 12356, 12383>>, <<12392, 12371, 12429, 12391>>>>>>,  \* 泣いた|ところ|で -> 泣いた|ところで
      <<<<<<12375, 12383>>, <<12392, 12371, 12429>>, <<12391>>>>, <<<<12375, 12383>>, <<12392, 12371, 12429, 12391>>>>>>,  \* した|ところ|で -> した|ところで
      <<<<<<12371, 12392, 12364, 12354, 12387, 12390>>, <<12418>>>>, <<<<12371, 12392, 12364, 12354, 12387, 12390, 12418>>>>>>,  \* ことがあって|も -> ことがあっても
      <<<<<<36229, 12360, 12390, 12375, 12414, 12356, 12414, 12375, 12383>>>>, <<<<36229, 12360, 12390>>, <<12375, 12414, 12356, 12414, 12375, 12383>>>>>>,  \* 超えてしまいました -> 超えて|しまいました
      <<<<<<36948>>, <<25104, 12375, 12414, 12375, 12383>>>>, <<<<36948, 25104, 12375, 12414, 12375, 12383>>>>>>,  \* 達|成しました -> 達成しました
      <<<<<<26089>>, <<24613>>>>, <<<<26089, 24613>>>>>>,  \* 早|急 -> 早急
      <<<<<<12417, 12393, 12364, 31435, 12385, 12414, 12375, 12383>>>>, <<<<12417, 12393>>, <<12364>>, <<31435, 12385, 12414, 12375, 12383>>>>>>,  \* めどが立ちました -> めど|が|立ちました
      <<<<<<24112, 12425, 12379, 12390>>, <<12418, 12425, 12356, 12414, 12377>>>>, <<<<24112, 12425, 12379, 12390, 12418, 12425, 12356, 12414, 12377>>>>>>,  \* 帰らせて|もらいます -> 帰らせてもらいます
      <<<<<<12399, 12365>>, <<12385, 12435>>, <<12392>>>>, <<<<12399>>, <<12365, 12385, 12435, 12392>>>>>>,  \* はき|ちん|と -> は|きちんと
      <<<<<<24038, 36983>>, <<12373, 12428, 12414, 12375, 12383>>>>, <<<<24038, 36983, 12373, 12428, 12414, 12375, 12383>>>>>>,  \* 左遷|されました -> 左遷されました
      <<<<<<12393, 12358>>, <<12391, 12377, 12363>>>>, <<<<12393, 12358, 12391, 12377, 12363>>>>>>,  \* どう|ですか -> どうですか
      <<<<<<26257, 12367>>, <<12394, 12426, 12414, 12375, 12383>>, <<12397>>>>, <<<<26257, 12367, 12394, 12426, 12414, 12375, 12383, 12397>>>>>>,  \* 暑く|なりました|ね -> 暑くなりましたね
      <<<<<<23506, 12367>>, <<12394, 12426, 12414, 12375, 12383>>, <<12397>>>>, <<<<23506, 12367, 12394, 12426, 12414, 12375, 12383, 12397>>>>>>,  \* 寒く|なりました|ね -> 寒くなりましたね
      <<<<<<36933>>, <<12367>>, <<12394, 12387, 12390>>>>, <<<<36933, 12367, 12394, 12387, 12390>>>>>>,  \* 遅|く|なって -> 遅くなって
      <<<<<<12363, 12363, 12426>>, <<12381, 12358, 12391, 12377>>>>, <<<<12363, 12363, 12426, 12381, 12358, 12391, 12377>>>>>>,  \* かかり|そうです -> かかりそうです
      <<<<<<24746, 12367>>, <<12394, 12426, 12414, 12375, 12383>>>>, <<<<24746, 12367, 12394, 12426, 12414, 12375, 12383>>>>>>,  \* 悪く|なりました -> 悪くなりました
      <<<<<<12356, 12426>>, <<12414, 12379, 12435>>>>, <<<<12356, 12426, 12414, 12379, 12435>>>>>>,  \* いり|ません -> いりません
      <<<<<<12362>>, <<25345, 12385>>, <<12391, 12377, 12363>>>>, <<<<12362, 25345, 12385, 12391, 12377, 12363>>>>>>,  \* お|持ち|ですか -> お持ちですか
      <<<<<<35698, 12426>>, <<12414, 12375, 12423, 12358, 12363>>>>, <<<<35698, 12426, 12414, 12375, 12423, 12358, 12363>>>>>>,  \* 譲り|ましょうか -> 譲りましょうか
      <<<<<<32622, 12356, 12390>>, <<12418>>, <<12356, 12356, 12391, 12377, 12363>>>>, <<<<32622, 12356, 12390, 12418>>, <<12356, 12356, 12391, 12377, 12363>>>>>>,  \* 置いて|も|いいですか -> 置いても|いいですか
      <<<<<<38283, 12369, 12390>>, <<12418>>, <<12356, 12356, 12391, 12377, 12363>>>>, <<<<38283, 12369, 12390, 12418>>, <<12356, 12356, 12391, 12377, 12363>>>>>>,  \* 開けて|も|いいですか -> 開けても|いいですか
      <<<<<<25774, 12387, 12390>>, <<12418, 12425, 12360, 12414, 12377, 12363>>>>, <<<<25774, 12387, 12390, 12418, 12425, 12360, 12414, 12377, 12363>>>>>>,  \* 撮って|もらえますか -> 撮ってもらえますか
      <<<<<<12375, 12390>>, <<12418>>, <<12356, 12356, 12391, 12377, 12363>>>>, <<<<12375, 12390, 12418>>, <<12356, 12356, 12391, 12377, 12363>>>>>>,  \* して|も|いいですか -> しても|いいですか
      <<<<<<12362, 12363, 12431, 12426>>, <<12391, 12365, 12414, 12377, 12363>>>>, <<<<12362, 12363, 12431, 12426, 12391, 12365, 12414, 12377, 12363>>>>>>,  \* おかわり|できますか -> おかわりできますか
      <<<<<<21029, 12293>>, <<12395>>, <<25173, 12356, 12414, 12377>>>>, <<<<21029, 12293, 12395>>, <<25173, 12356, 12414, 12377>>>>>>,  \* 別々|に|払います -> 別々に|払います
      <<<<<<12362, 37034, 39764>>, <<12375, 12414, 12375, 12383>>>>, <<<<12362, 37034, 39764, 12375, 12414, 12375, 12383>>>>>>,  \* お邪魔|しました -> お邪魔しました
      <<<<<<12414, 12383>>, <<12362>>, <<20250, 12356, 12414, 12375, 12423, 12358>>>>, <<<<12414, 12383>>, <<12362, 20250, 12356, 12375, 12414, 12375, 12423, 12358>>>>>>,  \* また|お|会いましょう -> また|お会いしましょう
      <<<<<<12372>>, <<23550, 24540>>, <<12356, 12383, 12384, 12369, 12414, 12377, 12363>>>>, <<<<12372>>, <<23550, 24540, 12356, 12383, 12384, 12369, 12414, 12377, 12363>>>>>>,  \* ご|対応|いただけますか -> ご|対応いただけますか
      <<<<<<12372>>, <<26696, 20869>>, <<12356, 12383, 12375, 12414, 12377>>>>, <<<<12372>>, <<26696, 20869, 12356, 12383, 12375, 12414, 12377>>>>>>,  \* ご|案内|いたします -> ご|案内いたします
      <<<<<<12372>>, <<36899, 32097>>, <<12356, 12383, 12375, 12414, 12377>>>>, <<<<12372>>, <<36899, 32097, 12356, 12383, 12375, 12414, 12377>>>>>>,  \* ご|連絡|いたします -> ご|連絡いたします
      <<<<<<12372>>, <<25552, 26696>>, <<12373, 12379, 12390, 12356, 12383, 12384, 12365, 12414, 12377>>>>, <<<<12372>>, <<25552, 26696, 12373, 12379, 12390, 12356, 12383, 12384, 12365, 12414, 12377>>>>>>,  \* ご|提案|させていただきます -> ご|提案させていただきます
      <<<<<<12372>>, <<27770, 35009>>, <<12434>>, <<12356, 12383, 12384, 12365, 12383, 12367>>, <<23384, 12376, 12414, 12377>>>>, <<<<12372>>, <<27770, 35009>>, <<12434>>, <<12356, 12383, 12384, 12365, 12383, 12367, 23384, 12376, 12414, 12377>>>>>>,  \* ご|決裁|を|いただきたく|存じます -> ご|決裁|を|いただきたく存じます
      <<<<<<12362>>, <<21463, 12369, 21462, 12426>>, <<12367, 12384, 12373, 12356>>>>, <<<<12362>>, <<21463, 12369, 21462, 12426, 12367, 12384, 12373, 12356>>>>>>,  \* お|受け取り|ください -> お|受け取りください
      <<<<<<12372>>, <<25384, 25334>>, <<12364>>, <<36933, 12428, 12414, 12375, 12390>>>>, <<<<12372, 25384, 25334>>, <<12364>>, <<36933, 12428, 12414, 12375, 12390>>>>>>,  \* ご|挨拶|が|遅れまして -> ご挨拶|が|遅れまして
      <<<<<<12372>>, <<36899, 32097>>, <<22833, 31036>>, <<12356, 12383, 12375, 12414, 12377>>>>, <<<<12372, 36899, 32097>>, <<22833, 31036, 12356, 12383, 12375, 12414, 12377>>>>>>,  \* ご|連絡|失礼|いたします -> ご連絡|失礼いたします
      <<<<<<12362>>, <<26178, 38291>>, <<12434>>, <<38914, 25140>>, <<12391, 12365, 12414, 12377, 12391, 12375, 12423, 12358, 12363>>>>, <<<<12362, 26178, 38291>>, <<12434>>, <<38914, 25140, 12391, 12365, 12414, 12377>>, <<12391, 12375, 12423, 12358, 12363>>>>>>,  \* お|時間|を|頂戴|できますでしょうか -> お時間|を|頂戴できます|でしょうか
      <<<<<<12372>>, <<22810, 29992>>, <<12398>>, <<12392, 12371, 12429>>, <<24656, 32302>>, <<12391, 12377>>, <<12364>>>>, <<<<12372>>, <<22810, 29992>>, <<12398>>, <<12392, 12371, 12429>>, <<24656, 32302>>, <<12391, 12377, 12364>>>>>>,  \* ご|多用|の|ところ|恐縮|です|が -> ご|多用|の|ところ|恐縮|ですが
      <<<<<<12362>>, <<20184, 12365, 21512, 12356>>>>, <<<<12362>>, <<20184, 12365, 21512, 12356>>>>>>,  \* お|付き合い -> お|付き合い
      <<<<<<12460, 12481>>, <<12391>>>>, <<<<12460, 12481, 12391>>>>>>,  \* ガチ|で -> ガチで
      <<<<<<12362, 12388>>, <<12363>>, <<12428, 12540>>>>, <<<<12362>>, <<12388, 12363, 12428>>, <<12540>>>>>>,  \* おつ|か|れー -> お|つかれ|ー
      <<<<<<12420, 12400>>, <<12377, 12366>>>>, <<<<12420, 12400, 12377, 12366>>>>>>,  \* やば|すぎ -> やばすぎ
      <<<<<<20309>>, <<12381, 12428>>>>, <<<<20309, 12381, 12428>>>>>>,  \* 何|それ -> 何それ
      <<<<<<26257>>, <<12377, 12366>>>>, <<<<26257, 12377, 12366>>>>>>,  \* 暑|すぎ -> 暑すぎ
      <<<<<<23506>>, <<12377, 12366>>>>, <<<<23506, 12377, 12366>>>>>>,  \* 寒|すぎ -> 寒すぎ
      <<<<<<12418, 12358>>, <<28961, 29702>>>>, <<<<12418, 12358, 28961, 29702>>>>>>,  \* もう|無理 -> もう無理
      <<<<<<12363>>, <<12431, 12356>>, <<12377, 12366, 12390>>>>, <<<<12363, 12431, 12356, 12377, 12366, 12390>>>>>>,  \* か|わい|すぎて -> かわいすぎて
      <<<<<<12424>>, <<12377, 12366>>>>, <<<<12424, 12377, 12366>>>>>>,  \* よ|すぎ -> よすぎ
      <<<<<<12356, 12356>>, <<12397>>>>, <<<<12356, 12356, 12397>>>>>>,  \* いい|ね -> いいね
      <<<<<<20998, 12363, 12387, 12390>>, <<12418, 12425, 12360, 12394, 12363, 12387, 12383>>>>, <<<<20998, 12363, 12387, 12390, 12418, 12425, 12360, 12394, 12363, 12387, 12383>>>>>>,  \* 分かって|もらえなかった -> 分かってもらえなかった
      <<<<<<35328, 12387, 12390>>, <<12367, 12428, 12428, 12400>>>>, <<<<35328, 12387, 12390, 12367, 12428, 12428, 12400>>>>>>,  \* 言って|くれれば -> 言ってくれれば
      <<<<<<20998>>, <<12363, 12425>>, <<12394, 12367, 12394, 12427>>>>, <<<<20998, 12363, 12425, 12394, 12367, 12394, 12427>>>>>>,  \* 分|から|なくなる -> 分からなくなる
      <<<<<<33258, 20998>>, <<12391>>>>, <<<<33258, 20998, 12391>>>>>>,  \* 自分|で -> 自分で
      <<<<<<12395>>, <<12375, 12390>>, <<12418>>>>, <<<<12395, 12375, 12390, 12418>>>>>>,  \* に|して|も -> にしても
      <<<<<<35328, 12356, 35379>>, <<12434>>, <<12375, 12383>>, <<12392, 12371, 12429>>, <<12391>>>>, <<<<35328, 12356, 35379>>, <<12434>>, <<12375, 12383>>, <<12392, 12371, 12429, 12391>>>>>>,  \* 言い訳|を|した|ところ|で -> 言い訳|を|した|ところで
      <<<<<<35377, 12375, 12390>>, <<12418, 12425, 12360, 12394, 12356>>>>, <<<<35377, 12375, 12390, 12418, 12425, 12360, 12394, 12356>>>>>>,  \* 許して|もらえない -> 許してもらえない
      <<<<<<26469>>, <<12394, 12356, 12371, 12392, 12395, 12399>>>>, <<<<26469, 12394, 12356>>, <<12371, 12392>>, <<12395, 12399>>>>>>,  \* 来|ないことには -> 来ない|こと|には
      <<<<<<35299, 27770>>, <<12375, 12394, 12356>>>>, <<<<35299, 27770, 12375, 12394, 12356>>>>>>,  \* 解決|しない -> 解決しない
      <<<<<<12420, 12387, 12390, 12415, 12390>>>>, <<<<12420, 12387, 12390>>, <<12415, 12390>>>>>>,  \* やってみて -> やって|みて
      <<<<<<12420, 12387, 12390, 12415, 12394, 12369, 12428, 12400>>>>, <<<<12420, 12387, 12390>>, <<12415, 12394, 12369, 12428, 12400>>>>>>,  \* やってみなければ -> やって|みなければ
      <<<<<<22823, 20999>>, <<12373>>>>, <<<<22823, 20999, 12373>>>>>>,  \* 大切|さ -> 大切さ
      <<<<<<12424>>, <<12373>>>>, <<<<12424, 12373>>>>>>,  \* よ|さ -> よさ
      <<<<<<12373, 12360>>, <<12377, 12428, 12400>>>>, <<<<12373, 12360, 12377, 12428, 12400>>>>>>,  \* さえ|すれば -> さえすれば
      <<<<<<12367, 12428>>, <<12373, 12360>>>>, <<<<12367, 12428>>, <<12373, 12360>>>>>>,  \* くれ|さえ -> くれ|さえ
      <<<<<<12356, 12390>>, <<12367, 12428>>>>, <<<<12356, 12390, 12367, 12428>>>>>>,  \* いて|くれ -> いてくれ
      <<<<<<12424, 12358, 12395, 12375, 12390>>, <<12362, 12371, 12358>>>>, <<<<12424, 12358, 12395, 12375, 12390, 12362, 12371, 12358>>>>>>,  \* ようにして|おこう -> ようにしておこう
      <<<<<<12362, 37329>>, <<12364>>, <<12394, 12356, 12371, 12392, 12395, 12399>>>>, <<<<12362>>, <<37329, 12364, 12394, 12356>>, <<12371, 12392>>, <<12395, 12399>>>>>>,  \* お金|が|ないことには -> お|金がない|こと|には
      <<<<<<12356, 12390>>, <<12367, 12428>>, <<12373, 12360>>>>, <<<<12356, 12390, 12367, 12428>>, <<12373, 12360>>>>>>,  \* いて|くれ|さえ -> いてくれ|さえ
      <<<<<<39178, 32946, 36027>>, <<12365, 12385, 12435, 12392>>>>, <<<<39178, 32946, 36027>>, <<12399>>, <<12365, 12385, 12435, 12392>>>>>>,  \* 養育費|きちんと -> 養育費|は|きちんと
      <<<<<<26368, 36817>>, <<12393, 12358>>>>, <<<<26368, 36817, 12393, 12358>>>>>>,  \* 最近|どう -> 最近どう
      <<<<<<26257>>, <<12367>>>>, <<<<26257, 12367>>>>>>,  \* 暑|く -> 暑く
      <<<<<<23506>>, <<12367>>>>, <<<<23506, 12367>>>>>>,  \* 寒|く -> 寒く
      <<<<<<12362, 20808, 12395, 22833, 31036, 12375, 12414, 12377>>>>, <<<<12362, 20808, 12395>>, <<22833, 31036, 12375, 12414, 12377>>>>>>,  \* お先に失礼します -> お先に|失礼します
      <<<<<<12414, 12383>>, <<26126, 26085>>>>, <<<<12414, 12383, 26126, 26085>>>>>>,  \* また|明日 -> また明日
      <<<<<<38651, 35441>>, <<12375>>, <<12390, 12418, 12356, 12356, 12391, 12377>>, <<12363>>>>, <<<<38651, 35441, 12375, 12390, 12418, 12356, 12356>>, <<12391, 12377>>, <<12363>>>>>>,  \* 電話|し|てもいいです|か -> 電話してもいい|です|か
      <<<<<<36933, 12367>>, <<12394, 12387, 12390>>>>, <<<<36933, 12367, 12394, 12387, 12390>>>>>>,  \* 遅く|なって -> 遅くなって
      <<<<<<26178, 38291, 12364, 12363, 12363, 12426>>, <<12381, 12358>>>>, <<<<26178, 38291, 12364, 12363, 12363, 12426, 12381, 12358>>>>>>,  \* 時間がかかり|そう -> 時間がかかりそう
      <<<<<<37117, 21512>>, <<12364>>, <<24746, 12367, 12394, 12426, 12414, 12375, 12383>>>>, <<<<37117, 21512, 12364, 24746, 12367>>, <<12394, 12426, 12414, 12375, 12383>>>>>>,  \* 都合|が|悪くなりました -> 都合が悪く|なりました
      <<<<<<12461, 12515, 12531, 12475, 12523, 12375, 12383, 12356>>, <<12398, 12391, 12377>>, <<12364>>>>, <<<<12461, 12515, 12531, 12475, 12523, 12375, 12383, 12356>>, <<12398>>, <<12391, 12377, 12364>>>>>>,  \* キャンセルしたい|のです|が -> キャンセルしたい|の|ですが
      <<<<<<12362, 12388, 12426>>, <<12399, 12356, 12426, 12414, 12379, 12435>>>>, <<<<12362>>, <<12388, 12426>>, <<12399>>, <<12356, 12426, 12414, 12379, 12435>>>>>>,  \* おつり|はいりません -> お|つり|は|いりません
      <<<<<<34955>>, <<12399, 12356, 12426, 12414, 12379, 12435>>>>, <<<<34955>>, <<12399>>, <<12356, 12426, 12414, 12379, 12435>>>>>>,  \* 袋|はいりません -> 袋|は|いりません
      <<<<<<12509, 12452, 12531, 12488, 12459, 12540, 12489>>>>, <<<<12509, 12452, 12531, 12488>>, <<12459, 12540, 12489>>>>>>,  \* ポイントカード -> ポイント|カード
      <<<<<<24109, 12434, 35698, 12426, 12414, 12375, 12423, 12358>>, <<12363>>>>, <<<<24109>>, <<12434>>, <<35698, 12426, 12414, 12375, 12423, 12358>>, <<12363>>>>>>,  \* 席を譲りましょう|か -> 席|を|譲りましょう|か
      <<<<<<32622, 12356, 12390>>, <<12418>>, <<12356, 12356, 12391, 12377>>, <<12363>>>>, <<<<32622, 12356, 12390, 12418>>, <<12356, 12356, 12391, 12377>>, <<12363>>>>>>,  \* 置いて|も|いいです|か -> 置いても|いいです|か
      <<<<<<38283, 12369>>, <<12390, 12418, 12356, 12356, 12391, 12377>>, <<12363>>>>, <<<<38283, 12369, 12390, 12418>>, <<12356, 12356, 12391, 12377>>, <<12363>>>>>>,  \* 開け|てもいいです|か -> 開けても|いいです|か
      <<<<<<20889, 30495, 12434, 25774, 12387, 12390>>, <<12418, 12425, 12360, 12414, 12377>>, <<12363>>>>, <<<<20889, 30495, 12434, 25774, 12387, 12390, 12418, 12425, 12360, 12414, 12377>>, <<12363>>>>>>,  \* 写真を撮って|もらえます|か -> 写真を撮ってもらえます|か
      <<<<<<12362, 12363, 12431, 12426>>, <<12391, 12365, 12414, 12377>>, <<12363>>>>, <<<<12362, 12363, 12431, 12426, 12391, 12365, 12414, 12377>>, <<12363>>>>>>,  \* おかわり|できます|か -> おかわりできます|か
      <<<<<<12414, 12383>>, <<12362>>, <<20250>>, <<12356, 12375, 12414, 12375, 12423, 12358>>>>, <<<<12414, 12383>>, <<12362>>, <<20250, 12356>>, <<12375, 12414, 12375, 12423, 12358>>>>>>,  \* また|お|会|いしましょう -> また|お|会い|しましょう
      <<<<<<12356, 12388>>, <<12418>>>>, <<<<12356, 12388, 12418>>>>>>,  \* いつ|も -> いつも
      <<<<<<21029, 36884>>, <<12372, 26696, 20869>>, <<12356, 12383, 12375, 12414, 12377>>>>, <<<<21029, 36884>>, <<12372>>, <<26696, 20869, 12356, 12383, 12375, 12414, 12377>>>>>>,  \* 別途|ご案内|いたします -> 別途|ご|案内いたします
      <<<<<<25913, 12417, 12390>>, <<12372, 36899, 32097>>, <<12356, 12383, 12375, 12414, 12377>>>>, <<<<25913, 12417, 12390>>, <<12372, 36899, 32097, 12356, 12383, 12375, 12414, 12377>>>>>>,  \* 改めて|ご連絡|いたします -> 改めて|ご連絡いたします
      <<<<<<12372, 25552, 26696, 12373, 12379, 12390, 12356, 12383, 12384, 12365, 12414, 12377>>>>, <<<<12372>>, <<25552, 26696, 12373, 12379, 12390, 12356, 12383, 12384, 12365, 12414, 12377>>>>>>,  \* ご提案させていただきます -> ご|提案させていただきます
      <<<<<<12356, 12383, 12384, 12365>>, <<12383, 12367>>>>, <<<<12356, 12383, 12384, 12365, 12383, 12367>>>>>>,  \* いただき|たく -> いただきたく
      <<<<<<12391>>, <<12377, 12364, 12362>>>>, <<<<12391, 12377, 12364>>, <<12362>>>>>>,  \* で|すがお -> ですが|お
      <<<<<<24515, 12400, 12363, 12426>>, <<12391>>, <<12377, 12364, 12362>>, <<21463, 12369, 21462, 12426>>, <<12367, 12384, 12373, 12356>>>>, <<<<24515, 12400, 12363, 12426>>, <<12391, 12377, 12364>>, <<12362>>, <<21463, 12369, 21462, 12426>>, <<12367, 12384, 12373, 12356>>>>>>,  \* 心ばかり|で|すがお|受け取り|ください -> 心ばかり|ですが|お|受け取り|ください
      <<<<<<22833, 31036>>, <<12356, 12383, 12375, 12414, 12375, 12383>>>>, <<<<22833, 31036, 12356, 12383, 12375, 12414, 12375, 12383>>>>>>,  \* 失礼|いたしました -> 失礼いたしました
      <<<<<<22833, 31036>>, <<12356, 12383, 12375, 12414, 12377>>>>, <<<<22833, 31036, 12356, 12383, 12375, 12414, 12377>>>>>>,  \* 失礼|いたします -> 失礼いたします
      <<<<<<38914, 25140>>, <<12391, 12365, 12414, 12377>>>>, <<<<38914, 25140, 12391, 12365, 12414, 12377>>>>>>,  \* 頂戴|できます -> 頂戴できます
      <<<<<<12372, 22810, 29992, 12398, 12392, 12371, 12429, 24656, 32302, 12391, 12377, 12364>>>>, <<<<12372>>, <<22810, 29992>>, <<12398>>, <<12392, 12371, 12429>>, <<24656, 32302>>, <<12391, 12377, 12364>>>>>>,  \* ご多用のところ恐縮ですが -> ご|多用|の|ところ|恐縮|ですが
      <<<<<<12362, 20184, 12365, 21512, 12356>>>>, <<<<12362>>, <<20184, 12365, 21512, 12356>>>>>>,  \* お付き合い -> お|付き合い
      <<<<<<12394, 12356, 12371, 12392>>, <<12395, 12399>>>>, <<<<12394, 12356, 12371, 12392, 12395, 12399>>>>>>,  \* ないこと|には -> ないことには
      <<<<<<12398, 12391, 12377>>, <<12364>>>>, <<<<12398>>, <<12391, 12377, 12364>>>>>>,  \* のです|が -> の|ですが
      <<<<<<25552, 26696>>, <<12373, 12379, 12390, 12356, 12383, 12384, 12365, 12414, 12377>>>>, <<<<25552, 26696, 12373, 12379, 12390, 12356, 12383, 12384, 12365, 12414, 12377>>>>>>,  \* 提案|させていただきます -> 提案させていただきます
      <<<<<<12372>>, <<22810, 29992>>>>, <<<<12372>>, <<22810, 29992>>>>>>,  \* ご|多用 -> ご|多用
      <<<<<<20181, 20107>>, <<12399, 12375>>>>, <<<<20181, 20107>>, <<12399>>, <<12375>>>>>>,  \* 仕事|はし -> 仕事|は|し
      <<<<<<19979, 12426, 12394, 12356>>, <<12371, 12392>>, <<12395, 12399>>>>, <<<<19979, 12426>>, <<12394, 12356, 12371, 12392, 12395, 12399>>>>>>,  \* 下りない|こと|には -> 下り|ないことには
      <<<<<<12420, 12400>>, <<12356, 12394>>>>, <<<<12420, 12400, 12356>>, <<12394>>>>>>>>  \* やば|いな -> やばい|な

\* seq -> split score of the -de compounds, as <<seq, score>> (splits.py)
DE_SPLITS ==
    {<<1163700, 20>>, <<1611020, 20>>, <<1004800, 20>>, <<2810720, 20>>,
     <<1006840, 20>>, <<1530610, 20>>, <<1245390, 20>>, <<2719270, 20>>,
     <<1189420, 20>>, <<1272220, 20>>, <<1311360, 20>>, <<1368500, 20>>,
     <<1395670, 20>>, <<1417790, 20>>, <<1454270, 20>>, <<1479100, 20>>,
     <<1510140, 20>>, <<1518550, 20>>, <<1531420, 20>>, <<1597400, 20>>,
     <<1679990, 20>>, <<1682060, 20>>, <<1736650, 20>>, <<1865020, 20>>,
     <<1878880, 20>>, <<2126220, 20>>, <<2136520, 20>>, <<2513590, 20>>,
     <<2771850, 20>>, <<2810800, 20>>, <<1343110, 20>>, <<1270210, 20>>}

\* seq -> split score of the -toori compounds (splits.py)
TOORI_SPLITS ==
    {<<1260990, 50>>, <<1414570, 50>>, <<1424950, 50>>, <<1424960, 50>>,
     <<1820790, 50>>, <<1489800, 50>>, <<1523010, 50>>, <<1808080, 50>>,
     <<1368820, 50>>, <<1550490, 50>>, <<1619440, 50>>, <<1164910, 50>>,
     <<1462720, 50>>}

\* seq -> split score of the do- compounds (splits.py)
DO_SPLITS ==
    {<<2142710, 30>>, <<2803190, 30>>, <<2142680, 30>>, <<2523480, 30>>}

\* seq -> split score of the shi- compounds (splits.py)
SHI_SPLITS ==
    {<<1005700, 30>>, <<1005830, 30>>, <<1157200, 30>>, <<1157220, 30>>,
     <<1157230, 30>>, <<1157280, 30>>, <<1157310, 30>>, <<1304890, 30>>,
     <<1304960, 30>>, <<1305110, 30>>, <<1305280, 30>>, <<1305290, 30>>,
     <<1594300, 30>>, <<1594310, 30>>, <<1594460, 30>>, <<1594580, 30>>,
     <<2518250, 30>>, <<1157240, 30>>, <<1304820, 30>>, <<2858937, 30>>}

\* seq -> split score of the complex compounds (splits.py)
COMPLEX_SPLITS ==
    {<<1529550, 30>>, <<1922760, 20>>, <<2755350, 10>>, <<1009470, 1>>,
     <<1591050, 100>>, <<1221750, 100>>}

\* seq -> split score of the segment splits (splits.py)
SEGMENT_SPLITS ==
    {<<1008570, -10>>, <<2028950, -5>>, <<1008450, -5>>, <<1007310, -5>>,
     <<1289400, -30>>}

\* words ending in de that prefer the split (splits.py)
DE_SUFFIX_WORDS ==
    {<<19968, 20154, 12391>>,  \* 一人で
     <<20309, 12391>>,  \* 何で
     <<12371, 12428, 12391>>,  \* これで
     <<12381, 12398, 19978, 12391>>,  \* その上で
     <<28961, 26029, 12391>>,  \* 無断で
     <<31354, 12391>>,  \* 空で
     <<22303, 36275, 12391>>,  \* 土足で
     <<20309, 29992, 12391>>,  \* 何用で
     <<20132, 20195, 12391>>,  \* 交代で
     <<31169, 36027, 12391>>,  \* 私費で
     <<20154, 21069, 12391>>,  \* 人前で
     <<20840, 20307, 12391>>,  \* 全体で
     <<21336, 29420, 12391>>,  \* 単独で
     <<36947, 29702, 12391>>,  \* 道理で
     <<21322, 30524, 12391>>,  \* 半眼で
     <<21029, 23553, 12391>>,  \* 別封で
     <<28961, 12375, 12391>>,  \* 無しで
     <<21517, 32681, 12391>>,  \* 名義で
     <<21147, 23613, 12367, 12391>>,  \* 力尽くで
     <<25244, 12365, 36275, 12391>>,  \* 抜き足で
     <<37329, 12378, 12367, 12391>>,  \* 金ずくで
     <<27700, 20837, 12425, 12378, 12391>>,  \* 水入らずで
     <<38512, 12391>>,  \* 陰で
     <<24046, 12375, 12391>>,  \* 差しで
     <<12418, 12358, 23569, 12375, 12391>>,  \* もう少しで
     <<20170, 12414, 12391, 12391>>,  \* 今までで
     <<12392, 12371, 12429, 12391>>,  \* ところで
     <<12362, 38512, 12391>>}  \* お陰で

\* words ending in toori that prefer the split (splits.py)
TOORI_SUFFIX_WORDS ==
    {<<20803, 36890, 12426>>,  \* 元通り
     <<22823, 36890, 12426>>,  \* 大通り
     <<20013, 36890, 12426>>,  \* 中通り
     <<22411, 36890, 12426>>,  \* 型通り
     <<34920, 36890, 12426>>,  \* 表通り
     <<26412, 36890, 12426>>,  \* 本通り
     <<30446, 36890, 12426>>,  \* 目通り
     <<20154, 36890, 12426>>,  \* 人通り
     <<35023, 36890, 12426>>,  \* 裏通り
     <<32032, 36890, 12426>>,  \* 素通り
     <<19968, 36890, 12426>>,  \* 一通り
     <<20108, 36890, 12426>>}  \* 二通り

\* words with the do- prefix (splits.py)
DO_PREFIX_WORDS ==
    {<<12393, 19979, 25163>>,  \* ど下手
     <<12393, 12377, 12369, 12409>>,  \* どすけべ
     <<12393, 26681, 24615>>,  \* ど根性
     <<12393, 30000, 33294>>}  \* ど田舎

\* words with the shi- prefix (splits.py)
SHI_PREFIX_WORDS ==
    {<<12375, 26131, 12356>>,  \* し易い
     <<12375, 12420, 12377, 12356>>,  \* しやすい
     <<12375, 21561, 12367>>,  \* し吹く
     <<12375, 38627, 12356>>,  \* し難い
     <<12375, 12395, 12367, 12356>>,  \* しにくい
     <<12375, 36942, 12366, 12427>>,  \* し過ぎる
     <<12375, 12377, 12366, 12427>>,  \* しすぎる
     <<12375, 21512, 12358>>,  \* し合う
     <<12375, 12354, 12358>>,  \* しあう
     <<12375, 23613, 12377>>,  \* し尽す
     <<12375, 32154, 12369, 12427>>,  \* し続ける
     <<12375, 12388, 12389, 12369, 12427>>,  \* しつづける
     <<12375, 20860, 12397, 12427>>,  \* し兼ねる
     <<12375, 12363, 12397, 12427>>,  \* しかねる
     <<12375, 22987, 12417, 12427>>,  \* し始める
     <<12375, 12399, 12376, 12417, 12427>>,  \* しはじめる
     <<12375, 20986, 12377>>,  \* し出す
     <<12375, 12384, 12377>>,  \* しだす
     <<12375, 30452, 12377>>,  \* し直す
     <<12375, 12394, 12362, 12377>>,  \* しなおす
     <<12375, 24931, 12428, 12427>>,  \* し慣れる
     <<12375, 12394, 12428, 12427>>,  \* しなれる
     <<12375, 25613, 12394, 12358>>,  \* し損なう
     <<12375, 12381, 12371, 12394, 12358>>,  \* しそこなう
     <<12375, 25613, 12376, 12427>>,  \* し損じる
     <<12375, 12381, 12435, 12376, 12427>>,  \* しそんじる
     <<12375, 36930, 12370, 12427>>,  \* し遂げる
     <<12375, 12392, 12370, 12427>>,  \* しとげる
     <<12375, 21521, 12369, 12427>>,  \* し向ける
     <<12375, 12416, 12369, 12427>>,  \* しむける
     <<12375, 32066, 12360, 12427>>,  \* し終える
     <<12375, 12362, 12360, 12427>>,  \* しおえる
     <<12375, 27531, 12377>>,  \* し残す
     <<12375, 12398, 12371, 12377>>,  \* しのこす
     <<12375, 25499, 12369, 12427>>,  \* し掛ける
     <<12375, 12363, 12369, 12427>>,  \* しかける
     <<12375, 25613, 12397, 12427>>,  \* し損ねる
     <<12375, 12381, 12371, 12397, 12427>>}  \* しそこねる

\* surface -> split score of the complex pattern words, as <<surface, score>> (splits.py)
COMPLEX_PATTERN_WORDS ==
    {<<<<12394, 12367, 12394, 12427>>, 30>>,  \* なくなる
     <<<<28961, 12367, 12394, 12427>>, 30>>,  \* 無くなる
     <<<<12392, 12356, 12358>>, 20>>,  \* という
     <<<<12392, 12356, 12387, 12383>>, 20>>,  \* といった
     <<<<12392, 12356, 12387, 12390>>, 20>>,  \* といって
     <<<<12392, 12356, 12360, 12400>>, 20>>,  \* といえば
     <<<<12376, 12419, 12394, 12356>>, 10>>,  \* じゃない
     <<<<12376, 12419, 12394, 12363, 12387, 12383>>, 10>>,  \* じゃなかった
     <<<<12394, 12425>>, 1>>,  \* なら
     <<<<27671, 12364, 12388, 12367>>, 100>>,  \* 気がつく
     <<<<27671, 12364, 12388, 12356, 12383>>, 100>>,  \* 気がついた
     <<<<27671, 12364, 12388, 12363, 12394, 12356>>, 100>>,  \* 気がつかない
     <<<<27671, 12398, 12379, 12356>>, 100>>}  \* 気のせい

\* POS id -> POS name, as <<id, name>> (dictionary.py)
ID_TO_POS ==
    {<<1, "n">>, <<2, "n-adv">>, <<3, "n-pref">>, <<4, "n-suf">>, <<5,
     "n-t">>, <<10, "v1">>, <<11, "v1-s">>, <<12, "v5aru">>, <<13, "v5b">>,
     <<14, "v5g">>, <<15, "v5k">>, <<16, "v5k-s">>, <<17, "v5m">>, <<18,
     "v5n">>, <<19, "v5r">>, <<20, "v5r-i">>, <<21, "v5s">>, <<22, "v5t">>,
     <<23, "v5u">>, <<24, "v5u-s">>, <<25, "v5uru">>, <<26, "vk">>, <<27,
     "vs">>, <<28, "vs-i">>, <<29, "vs-s">>, <<30, "vz">>, <<40, "adj-i">>,
     <<41, "adj-ix">>, <<42, "adj-na">>, <<43, "adj-no">>, <<44, "adj-pn">>,
     <<45, "adj-t">>, <<46, "adj-f">>, <<50, "adv">>, <<51, "adv-to">>,
     <<60, "aux">>, <<61, "aux-v">>, <<62, "aux-adj">>, <<70, "conj">>,
     <<71, "cop">>, <<72, "ctr">>, <<73, "exp">>, <<74, "int">>, <<80,
     "pn">>, <<81, "pref">>, <<82, "prt">>, <<83, "suf">>, <<84, "unc">>}

\* length coefficients by mora length (index 0 first) (tokenizer.py)
LENGTH_COEFF_SEQUENCES ==
    [strong |-> <<0, 1, 8, 24, 40, 60, 84, 112, 144, 180>>,
     weak |-> <<0, 1, 4, 9, 16, 25, 36, 49, 64, 81>>,
     tail |-> <<0, 4, 9, 16, 24, 34, 46, 60>>,
     ltail |-> <<0, 4, 12, 18, 24, 32, 42, 54>>]

-----------------------------------------------------------------------------
(* Strings.  A character is its Unicode code point, a string the sequence  *)
(* of its characters; Python's 0-based half-open slices are kept.          *)

\* s[a:b]
Slice(s, a, b) == SubSeq(s, a + 1, b)

\* s.endswith(suffix)
EndsWith(s, suffix) ==
    Len(s) >= Len(suffix) /\ Slice(s, Len(s) - Len(suffix), Len(s)) = suffix

\* s.startswith(prefix)
StartsWith(s, prefix) ==
    Len(s) >= Len(prefix) /\ Slice(s, 0, Len(prefix)) = prefix

\* ''.join(parts)
RECURSIVE Join(_)
Join(parts) == IF parts = <<>> THEN <<>> ELSE Head(parts) \o Join(Tail(parts))

\* The members of a sequence, and the largest of a set of numbers.
Range(q) == {q[i] : i \in 1..Len(q)}
Max(S) == CHOOSE x \in S : \A y \in S : y <= x
Min2(a, b) == IF a < b THEN a ELSE b

-----------------------------------------------------------------------------
(* Character classifier (himotoki_split/characters.py)                     *)

\* small kana modifiers and the long vowel sign: a word cannot start there
MODIFIER_CHARS ==
    {12419, 12421, 12423,                 \* ゃ ゅ ょ
     12353, 12355, 12357, 12359, 12361,   \* ぁ ぃ ぅ ぇ ぉ
     12430,                               \* ゎ
     12540}                               \* ー

\* the sokuon: a word cannot end right after it
SOKUON_CHARS == {12387, 12483}            \* っ ッ

IsHiraganaChar(c) == c >= 12353 /\ c <= 12438
IsKatakanaChar(c) == (c >= 12449 /\ c <= 12538) \/ c = 12540
IsKanjiChar(c) == c >= 19968 /\ c <= 40959

is_hiragana(s) == s # <<>> /\ \A i \in 1..Len(s) : IsHiraganaChar(s[i])
is_katakana(s) == s # <<>> /\ \A i \in 1..Len(s) : IsKatakanaChar(s[i])
has_kanji(s) == \E i \in 1..Len(s) : IsKanjiChar(s[i])

\* moras: every character that is not a modifier counts one
mora_length(s) == Cardinality({i \in 1..Len(s) : s[i] \notin MODIFIER_CHARS})

-----------------------------------------------------------------------------
(* The lexicon artifact.  data/himotoki.dic is built off-line and is not   *)
(* part of the sources; the model reads a small lexicon of the same record *)
(* layout (seq, cost, pos_id, conj_type, base_seq) and drops keys from it. *)

Rec(seq, cost, pos_id, conj_type, base_seq) ==
    [seq |-> seq, cost |-> cost, pos_id |-> pos_id,
     conj_type |-> conj_type, base_seq |-> base_seq]

K_youikuhi    == <<39178, 32946, 36027>>                \* 養育費
K_kichinto    == <<12365, 12385, 12435, 12392>>         \* きちんと
K_shiteimasu  == <<12375, 12390, 12356, 12414, 12377>>  \* しています
K_ni          == <<12395>>                              \* に
K_ha          == <<12399>>                              \* は
K_koto        == <<12371, 12392>>                       \* こと
K_orinai      == <<19979, 12426, 12394, 12356>>         \* 下りない
K_ori         == <<19979, 12426>>                       \* 下り
K_benkyou     == <<21193, 24375>>                       \* 勉強
K_kyou        == <<20170, 26085>>                       \* 今日
K_kyouha      == <<20170, 26085, 12399>>                \* 今日は
K_you         == <<12424, 12358>>                       \* よう
K_da          == <<12384>>                              \* だ
K_youda       == <<12424, 12358, 12384>>                \* ようだ
K_tabe        == <<39135, 12409>>                       \* 食べ
K_tai         == <<12383, 12356>>                       \* たい
K_tabete      == <<39135, 12409, 12390>>                \* 食べて
K_iru         == <<12356, 12427>>                       \* いる
K_neko        == <<29483>>                              \* 猫
K_nekoni      == <<29483, 12395>>                       \* 猫に
K_ka          == <<12363>>                              \* か
K_mo          == <<12418>>                              \* も
K_kamo        == <<12363, 12418>>                       \* かも
K_kakka       == <<12363, 12387, 12363>>                \* かっか

\* key -> records, in the order the trie returns them
LEXICON ==
    {<<K_youikuhi,   <<Rec(1545890, 30, 1, 0, 0)>> >>,
     <<K_kichinto,   <<Rec(1003780, 20, 50, 0, 0)>> >>,
     <<K_shiteimasu, <<Rec(9157170, 20, 28, 3, 1157170)>> >>,
     <<K_ni,         <<Rec(2028990, 5, 82, 0, 0)>> >>,
     <<K_ha,         <<Rec(2028920, 5, 82, 0, 0)>> >>,
     <<K_koto,       <<Rec(1313580, 10, 1, 0, 0)>> >>,
     <<K_orinai,     <<Rec(9589500, 30, 10, 1, 1589500)>> >>,
     <<K_ori,        <<Rec(1184160, 40, 1, 0, 0),
                       Rec(9589513, 30, 10, 13, 1589500)>> >>,
     <<K_benkyou,    <<Rec(1512670, 10, 1, 0, 0), Rec(1512670, 10, 27, 0, 0)>> >>,
     <<K_kyou,       <<Rec(1186220, 10, 5, 0, 0)>> >>,
     <<K_kyouha,     <<Rec(1289400, 20, 74, 0, 0)>> >>,
     <<K_you,        <<Rec(1605840, 20, 1, 0, 0)>> >>,
     <<K_da,         <<Rec(2089020, 5, 71, 0, 0)>> >>,
     <<K_youda,      <<Rec(2409180, 20, 60, 0, 0)>> >>,
     <<K_tabe,       <<Rec(9358280, 20, 10, 13, 1358280)>> >>,
     <<K_tai,        <<Rec(2017560, 20, 62, 0, 0)>> >>,
     <<K_tabete,     <<Rec(9358283, 20, 10, 3, 1358280)>> >>,
     <<K_iru,        <<Rec(1577980, 10, 10, 0, 0)>> >>,
     <<K_neko,       <<Rec(1467640, 10, 1, 0, 0)>> >>,
     <<K_nekoni,     <<Rec(9467641, 45, 73, 0, 0)>> >>,
     <<K_ka,         <<Rec(2028970, 5, 82, 0, 0)>> >>,
     <<K_mo,         <<Rec(2028940, 5, 82, 0, 0)>> >>,
     <<K_kamo,       <<Rec(1208360, 30, 1, 0, 0)>> >>,
     <<K_kakka,      <<Rec(1205560, 30, 1, 0, 0)>> >>}

LexKeys == {e[1] : e \in LEXICON}

\* The lexicons a run may load: the whole of LEXICON, or LEXICON less one key.
Lexicons == {LexKeys} \cup {LexKeys \ {k} : k \in {K_shiteimasu, K_ori}}

\* _DICTIONARY.get(surface, []): the records of an exact key
Records(lex, surface) ==
    IF surface \in lex
    THEN (CHOOSE e \in LEXICON : e[1] = surface)[2]
    ELSE <<>>

\* lookup(surface): one WordEntry per record of the key
lookup(lex, surface) ==
    LET records == Records(lex, surface)
    IN  [i \in 1..Len(records) |->
            [surface |-> surface, seq |-> records[i].seq,
             cost |-> records[i].cost, pos_id |-> records[i].pos_id,
             conj_type |-> records[i].conj_type,
             base_seq |-> records[i].base_seq]]

\* contains(surface)
contains(lex, surface) == surface \in lex

\* has_prefix(prefix): some key starts with prefix
has_prefix(lex, prefix) == \E k \in lex : StartsWith(k, prefix)

\* get_pos_name(pos_id)
get_pos_name(pos_id) ==
    IF \E e \in ID_TO_POS : e[1] = pos_id
    THEN (CHOOSE e \in ID_TO_POS : e[1] = pos_id)[2]
    ELSE "unk"

\* WordEntry.base_form_id
base_form_id(entry) == IF entry.base_seq # 0 THEN entry.base_seq ELSE entry.seq

-----------------------------------------------------------------------------
(* Split score adjustment (splits.py)                                      *)

InTable(table, key) == \E e \in table : e[1] = key
TableScore(table, key) == (CHOOSE e \in table : e[1] = key)[2]

ALL_SPLIT_SEQS ==
    {e[1] : e \in DE_SPLITS \cup TOORI_SPLITS \cup DO_SPLITS \cup SHI_SPLITS
                      \cup COMPLEX_SPLITS \cup SEGMENT_SPLITS}

should_split(surface, seq) ==
    \/ seq \in ALL_SPLIT_SEQS
    \/ surface \in DE_SUFFIX_WORDS
    \/ surface \in TOORI_SUFFIX_WORDS
    \/ surface \in DO_PREFIX_WORDS
    \/ surface \in SHI_PREFIX_WORDS
    \/ InTable(COMPLEX_PATTERN_WORDS, surface)

get_split_score_bonus(surface, seq) ==
    IF InTable(DE_SPLITS, seq) THEN TableScore(DE_SPLITS, seq)
    ELSE IF InTable(TOORI_SPLITS, seq) THEN TableScore(TOORI_SPLITS, seq)
    ELSE IF InTable(DO_SPLITS, seq) THEN TableScore(DO_SPLITS, seq)
    ELSE IF InTable(SHI_SPLITS, seq) THEN TableScore(SHI_SPLITS, seq)
    ELSE IF InTable(COMPLEX_SPLITS, seq) THEN TableScore(COMPLEX_SPLITS, seq)
    ELSE IF InTable(SEGMENT_SPLITS, seq) THEN TableScore(SEGMENT_SPLITS, seq)
    ELSE IF InTable(COMPLEX_PATTERN_WORDS, surface)
         THEN TableScore(COMPLEX_PATTERN_WORDS, surface)
    ELSE IF surface \in DE_SUFFIX_WORDS THEN 20
    ELSE IF surface \in TOORI_SUFFIX_WORDS THEN 50
    ELSE IF surface \in DO_PREFIX_WORDS THEN 30
    ELSE IF surface \in SHI_PREFIX_WORDS THEN 30
    ELSE 0

calculate_split_score_adjustment(surface, seq) ==
    IF ~should_split(surface, seq) THEN 0
    ELSE 0 - get_split_score_bonus(surface, seq)

-----------------------------------------------------------------------------
(* Segment scoring (tokenizer.py).  Scores are kept in tenths: a model     *)
(* score s stands for the source's s / 10, which keeps cost * 0.1 and      *)
(* base_score * (1 + length_mult * 0.1) in the integers.                   *)
(* The source computes these in binary floating point; the arithmetic here *)
(* is exact, so two paths whose scores are equal here may be ordered by    *)
(* rounding in the source.                                                 *)

get_length_coeff(mora_len, coeff_type) ==
    LET coeffs == LENGTH_COEFF_SEQUENCES[coeff_type]
    IN  IF mora_len < Len(coeffs) THEN coeffs[mora_len + 1]
        ELSE mora_len * mora_len * 3

calculate_segment_score(lex, surface, entry) ==
    LET cost == entry.cost
        length == Len(surface)
        pos_id == entry.pos_id
        conj_type == entry.conj_type
        base_score ==
            5 + (IF has_kanji(surface) THEN 5 ELSE 0)
              + (IF cost <= 10 THEN 15 ELSE IF cost <= 30 THEN 10
                 ELSE IF cost <= 50 THEN 5 ELSE 2)
              + (IF cost < 20 THEN 8 ELSE IF cost < 40 THEN 4 ELSE 0)
              + (IF pos_id \in PARTICLE_POS_IDS THEN 3 ELSE 0)
              + (IF pos_id \in PRONOUN_POS_IDS THEN 5 ELSE 0)
        m_len == mora_length(surface)
        coeff_type ==
            IF has_kanji(surface) \/ is_katakana(surface) THEN "strong"
            ELSE IF is_hiragana(surface)
                 THEN IF pos_id \in PARTICLE_POS_IDS \/ conj_type > 0
                      THEN "tail" ELSE "weak"
            ELSE "strong"
        length_mult == get_length_coeff(m_len, coeff_type)
        length_score ==
            base_score * (10 + length_mult)
              + (IF conj_type > 0 THEN 150 ELSE 0)
              + (IF conj_type > 0 /\ conj_type = 4 /\ EndsWith(surface, <<12400>>)
                 THEN 400 ELSE 0)
              + (IF cost = 5 /\ length >= 3 THEN 250 ELSE 0)
              + (IF surface \in VALID_COMPOUND_WORDS THEN 400 ELSE 0)
              + 10 * calculate_split_score_adjustment(surface, entry.seq)
    IN  IF pos_id \in PARTICLE_POS_IDS
        THEN (150 - cost) + (IF length > 1 THEN length * length * 50 ELSE 0)
        ELSE IF length = 1 /\ surface \in SINGLE_CHAR_PARTICLES
        THEN 120 - cost
        ELSE length_score
               - (IF length = 1 /\ pos_id \notin PARTICLE_POS_IDS THEN 300 ELSE 0)
               - (IF /\ length > 2
                     /\ surface \notin VALID_COMPOUND_WORDS
                     /\ <<surface[length]>> \in SINGLE_CHAR_PARTICLES
                     /\ contains(lex, Slice(surface, 0, length - 1))
                  THEN 300 ELSE 0)

-----------------------------------------------------------------------------
(* Lattice construction (tokenizer.py)                                     *)

find_sticky_positions(text) ==
    {i \in 0..(Len(text) - 1) : text[i + 1] \in MODIFIER_CHARS}
      \cup {i + 1 : i \in {j \in 0..(Len(text) - 2) : text[j + 1] \in SOKUON_CHARS}}

\* Variant: no end is skipped.
EndSkipped_Never(sticky, end) == FALSE

\* `if end in sticky: continue`
EndSkipped(sticky, end) == end \in sticky

\* range(start + 1, min(start + MAX_WORD_LENGTH + 1, text_len + 1)) is used up
EndsUsedUp(text, start, end) ==
    end >= Min2(start + MAX_WORD_LENGTH + 1, Len(text) + 1)

\* The ends tried from start, rising: an end on a sticky position is
\* skipped, the first substring that is no prefix of any key stops the scan.
RECURSIVE SpanEnds(_, _, _, _, _)
SpanEnds(lex, text, sticky, start, end) ==
    IF EndsUsedUp(text, start, end) THEN <<>>
    ELSE IF EndSkipped(sticky, end) THEN SpanEnds(lex, text, sticky, start, end + 1)
    ELSE IF ~has_prefix(lex, Slice(text, start, end)) THEN <<>>
    ELSE (IF lookup(lex, Slice(text, start, end)) # <<>> THEN <<end>> ELSE <<>>)
            \o SpanEnds(lex, text, sticky, start, end + 1)

\* The Segments of one span, in the order of the key's records.
SpanSegments(lex, text, start, end) ==
    LET substring == Slice(text, start, end)
        entries == lookup(lex, substring)
    IN  [i \in 1..Len(entries) |->
            [surface |-> substring, start |-> start, end |-> end,
             entry |-> entries[i],
             score |-> calculate_segment_score(lex, substring, entries[i])]]

\* matches, as start -> <<(end, segments)>> in insertion order; a start with
\* no span maps to the empty sequence.
find_all_matches(lex, text) ==
    LET sticky == find_sticky_positions(text)
    IN  [start \in 0..(Len(text) - 1) |->
            IF start \in sticky THEN <<>>
            ELSE LET ends == SpanEnds(lex, text, sticky, start, start + 1)
                 IN  [i \in 1..Len(ends) |->
                        <<ends[i], SpanSegments(lex, text, start, ends[i])>>]]

-----------------------------------------------------------------------------
(* Path selector (tokenizer.py).  A dp entry is (score, prev, seg): prev is *)
(* -1 for None, seg is <<>> for None and <<segment>> otherwise.  A position *)
(* that is no key of dp holds the empty list.                               *)

\* Variant: the first segment of the span, whatever its score.
BestSeg_First(segments) == segments[1]

\* max(segments, key=score): the first segment of the highest score
BestSeg(segments) ==
    LET top == Max({segments[i].score : i \in 1..Len(segments)})
    IN  segments[CHOOSE i \in 1..Len(segments) :
                    /\ segments[i].score = top
                    /\ \A j \in 1..(i - 1) : segments[j].score # top]

\* sorted(q, key=-score): stable, so x goes behind every entry scoring >= x
RECURSIVE InsertDesc(_, _)
InsertDesc(q, x) ==
    IF q = <<>> THEN <<x>>
    ELSE IF Head(q).score >= x.score THEN <<Head(q)>> \o InsertDesc(Tail(q), x)
    ELSE <<x>> \o q

RECURSIVE SortDesc(_)
SortDesc(q) ==
    IF q = <<>> THEN <<>>
    ELSE InsertDesc(SortDesc(SubSeq(q, 1, Len(q) - 1)), q[Len(q)])

\* q[:k]
Truncate(q, k) == SubSeq(q, 1, Min2(Len(q), k))

\* Variant: no skip transitions are made.
GapEntries_None(dp, pos) == <<>>

\* The skip transitions into pos from the nearest reachable position before.
GapEntries(dp, pos) ==
    LET reachable == {p \in 0..(pos - 1) : dp[p] # <<>>}
    IN  IF reachable = {} THEN <<>>
        ELSE LET prev_pos == Max(reachable)
             IN  [i \in 1..Len(dp[prev_pos]) |->
                    [score |-> dp[prev_pos][i].score
                                 + 10 * UNKNOWN_CHAR_PENALTY * (pos - prev_pos),
                     prev |-> prev_pos, seg |-> <<>>]]

\* Variant: dp[end] is sorted but not cut.
RelaxEntry_NoCut(dp, pos, end, best_seg, limit, i) ==
    LET new == [score |-> dp[pos][i].score + best_seg.score,
                prev |-> pos, seg |-> <<best_seg>>]
    IN  [dp EXCEPT ![end] = SortDesc(Append(@, new))]

\* One relaxation step: the i-th entry of dp[pos], extended by best_seg, is
\* appended to dp[end], which is then sorted and cut to limit * 2 entries.
RelaxEntry(dp, pos, end, best_seg, limit, i) ==
    LET new == [score |-> dp[pos][i].score + best_seg.score,
                prev |-> pos, seg |-> <<best_seg>>]
    IN  [dp EXCEPT ![end] = Truncate(SortDesc(Append(@, new)), limit * 2)]

\* for prev_score in dp[pos]: one relaxation step each
RECURSIVE RelaxEntries(_, _, _, _, _, _)
RelaxEntries(dp, pos, end, best_seg, limit, i) ==
    IF i > Len(dp[pos]) THEN dp
    ELSE RelaxEntries(RelaxEntry(dp, pos, end, best_seg, limit, i),
                      pos, end, best_seg, limit, i + 1)

\* for each span starting at pos, in insertion order
RECURSIVE RelaxSpans(_, _, _, _, _)
RelaxSpans(dp, pos, spans, limit, j) ==
    IF j > Len(spans) THEN dp
    ELSE RelaxSpans(RelaxEntries(dp, pos, spans[j][1], BestSeg(spans[j][2]),
                                 limit, 1),
                    pos, spans, limit, j + 1)

\* for pos in range(text_length + 1)
RECURSIVE Forward(_, _, _, _, _, _)
Forward(dp, matches, text_length, pos, limit, allow_gaps) ==
    IF pos > text_length THEN dp
    ELSE LET dp1 == IF dp[pos] = <<>> /\ allow_gaps
                    THEN [dp EXCEPT ![pos] = GapEntries(dp, pos)]
                    ELSE dp
             spans == IF pos < text_length THEN matches[pos] ELSE <<>>
             dp2 == IF dp1[pos] = <<>> THEN dp1
                    ELSE RelaxSpans(dp1, pos, spans, limit, 1)
         IN  Forward(dp2, matches, text_length, pos + 1, limit, allow_gaps)

\* Backtracking from one final entry: every step back takes the first entry
\* of dp[prev].  Returns the path and the gaps, both front to back.
RECURSIVE Backtrack(_, _, _)
Backtrack(dp, current_entry, current_pos) ==
    LET seg == current_entry.seg
        prev == current_entry.prev
        path == seg
        gaps == IF seg = <<>> /\ prev # -1 /\ current_pos > prev
                THEN << <<prev, current_pos>> >> ELSE <<>>
    IN  IF prev = -1 \/ prev = 0 \/ dp[prev] = <<>>
        THEN [path |-> path, gaps |-> gaps]
        ELSE LET rest == Backtrack(dp, dp[prev][1], prev)
             IN  [path |-> rest.path \o path, gaps |-> rest.gaps \o gaps]

\* dp = {0: [(0.0, None, None)]}
InitialDp(text_length) ==
    [p \in 0..text_length |->
        IF p = 0 THEN << [score |-> 0, prev |-> -1, seg |-> <<>>] >>
        ELSE <<>>]

\* Variant: every result is returned, not the first limit of them.
SelectResults_All(dp, text_length, limit) ==
    LET finals == dp[text_length]
        walked == [i \in 1..Len(finals) |->
                     LET b == Backtrack(dp, finals[i], text_length)
                     IN  [path |-> b.path, score |-> finals[i].score,
                          gaps |-> b.gaps]]
        results == SelectSeq(walked, LAMBDA r : r.path # <<>> \/ r.gaps # <<>>)
    IN  SortDesc(results)

\* The results: one per entry of dp[text_length], walked back to the start,
\* kept if it has a segment or a gap, sorted by score, the first limit of them.
SelectResults(dp, text_length, limit) ==
    LET finals == dp[text_length]
        walked == [i \in 1..Len(finals) |->
                     LET b == Backtrack(dp, finals[i], text_length)
                     IN  [path |-> b.path, score |-> finals[i].score,
                          gaps |-> b.gaps]]
        results == SelectSeq(walked, LAMBDA r : r.path # <<>> \/ r.gaps # <<>>)
    IN  Truncate(SortDesc(results), limit)

\* `if not matches`
NoMatches(matches) == \A s \in DOMAIN matches : matches[s] = <<>>

\* the (path, score) results, best first, at most limit of them
find_best_path(matches, text_length, limit, allow_gaps) ==
    IF NoMatches(matches) THEN <<>>
    ELSE SelectResults(Forward(InitialDp(text_length), matches, text_length,
                               0, limit, allow_gaps),
                       text_length, limit)

-----------------------------------------------------------------------------
(* Tokens.  A Token keeps the fields that the pipeline reads back or that  *)
(* a caller can compare: surface, pos, base_form_id, start, end.  reading  *)
(* and base_form are written and never read by any branch.                 *)

Token(surface, pos, bfid, start, end) ==
    [surface |-> surface, pos |-> pos, base_form_id |-> bfid,
     start |-> start, end |-> end]

\* Token built from a lattice Segment, shifted by the segment's offset
SegToken(seg, seg_start) ==
    Token(seg.surface, get_pos_name(seg.entry.pos_id), base_form_id(seg.entry),
          seg_start + seg.start, seg_start + seg.end)

Surfaces(tokens) == [i \in 1..Len(tokens) |-> tokens[i].surface]

-----------------------------------------------------------------------------
(* tokenize_text, up to the rewriter (tokenizer.py)                        *)

\* (seg_text, seg_start) pairs: each separator alone, the text between whole
RECURSIVE PunctSegments(_, _, _)
PunctSegments(text, i, current_start) ==
    IF i = Len(text)
    THEN IF current_start < Len(text)
         THEN << <<Slice(text, current_start, Len(text)), current_start>> >>
         ELSE <<>>
    ELSE IF <<text[i + 1]>> \in PUNCTUATION_SEPARATORS
    THEN (IF i > current_start
          THEN << <<Slice(text, current_start, i), current_start>> >>
          ELSE <<>>)
           \o << << <<text[i + 1]>>, i>> >>
           \o PunctSegments(text, i + 1, i + 1)
    ELSE PunctSegments(text, i + 1, current_start)

\* the tokens of one best path, an unk token filling every gap before a segment
RECURSIVE PathTokens(_, _, _, _, _)
PathTokens(seg_text, seg_start, path, k, last_end) ==
    IF k > Len(path)
    THEN IF last_end < Len(seg_text)
         THEN <<Token(Slice(seg_text, last_end, Len(seg_text)), "unk", 0,
                      seg_start + last_end, seg_start + Len(seg_text))>>
         ELSE <<>>
    ELSE LET seg == path[k]
         IN  (IF seg.start > last_end
              THEN <<Token(Slice(seg_text, last_end, seg.start), "unk", 0,
                           seg_start + last_end, seg_start + seg.start)>>
              ELSE <<>>)
               \o <<SegToken(seg, seg_start)>>
               \o PathTokens(seg_text, seg_start, path, k + 1, seg.end)

SegmentTokens(lex, seg_text, seg_start) ==
    IF seg_text \in PUNCTUATION_SEPARATORS
    THEN <<Token(seg_text, "punc", 0, seg_start, seg_start + 1)>>
    ELSE LET matches == find_all_matches(lex, seg_text)
             paths == find_best_path(matches, Len(seg_text), 1, TRUE)
         IN  IF paths = <<>>
             THEN <<Token(seg_text, "unk", 0, seg_start, seg_start + Len(seg_text))>>
             ELSE PathTokens(seg_text, seg_start, paths[1].path, 1, 0)

\* all_tokens before the rewriter
InitialTokens(lex, text) ==
    LET segments == PunctSegments(text, 0, 0)
    IN  Join([i \in 1..Len(segments) |->
                 SegmentTokens(lex, segments[i][1], segments[i][2])])

-----------------------------------------------------------------------------
(* Rewriter pass A: merge_compound_verbs (tokenizer.py)                    *)

EndsWithAny(s, suffixes) == \E x \in suffixes : EndsWith(s, x)

RECURSIVE MergeCompoundVerbsFrom(_, _)
MergeCompoundVerbsFrom(tokens, i) ==
    IF i > Len(tokens) THEN <<>>
    ELSE LET current == tokens[i]
             next_token == tokens[i + 1]
             te_form == /\ EndsWithAny(current.surface, {<<12390>>, <<12391>>})
                        /\ next_token.surface \in Range(TE_FORM_MERGE_PATTERNS)
             suru == next_token.surface \in Range(SURU_CONTINUATION_PATTERNS)
             passive == /\ EndsWithAny(current.surface, Range(PASSIVE_STEM_ENDINGS))
                        /\ next_token.surface \in Range(PASSIVE_MERGE_PATTERNS)
         IN  IF i + 1 <= Len(tokens) /\ (te_form \/ suru \/ passive)
             THEN <<Token(current.surface \o next_token.surface, current.pos,
                          current.base_form_id, current.start, next_token.end)>>
                    \o MergeCompoundVerbsFrom(tokens, i + 2)
             ELSE <<current>> \o MergeCompoundVerbsFrom(tokens, i + 1)

merge_compound_verbs(tokens) ==
    IF Len(tokens) < 2 THEN tokens ELSE MergeCompoundVerbsFrom(tokens, 1)

-----------------------------------------------------------------------------
(* Rewriter pass B: apply_multi_token_merges (tokenizer.py)                *)

\* sorted(rules, key=-len(pattern)): stable, longest pattern first
RECURSIVE InsertByLen(_, _)
InsertByLen(q, x) ==
    IF q = <<>> THEN <<x>>
    ELSE IF Len(Head(q)[1]) >= Len(x[1]) THEN <<Head(q)>> \o InsertByLen(Tail(q), x)
    ELSE <<x>> \o q

RECURSIVE SortByLen(_)
SortByLen(q) ==
    IF q = <<>> THEN <<>>
    ELSE InsertByLen(SortByLen(SubSeq(q, 1, Len(q) - 1)), q[Len(q)])

\* the rule's pattern equals the surfaces of the tokens at i .. i+len-1
RuleMatches(rule, tokens, i) ==
    /\ i + Len(rule[1]) - 1 <= Len(tokens)
    /\ \A j \in 1..Len(rule[1]) : tokens[i + j - 1].surface = rule[1][j]

\* index of the first rule matching at i, 0 if none
FirstRule(rules, tokens, i) ==
    LET hits == {k \in 1..Len(rules) : RuleMatches(rules[k], tokens, i)}
    IN  IF hits = {} THEN 0 ELSE CHOOSE k \in hits : \A m \in hits : k <= m

RECURSIVE MultiTokenMergesFrom(_, _, _)
MultiTokenMergesFrom(sorted_patterns, tokens, i) ==
    IF i > Len(tokens) THEN <<>>
    ELSE LET k == FirstRule(sorted_patterns, tokens, i)
         IN  IF k = 0
             THEN <<tokens[i]>> \o MultiTokenMergesFrom(sorted_patterns, tokens, i + 1)
             ELSE LET pattern_len == Len(sorted_patterns[k][1])
                      first_token == tokens[i]
                      last_token == tokens[i + pattern_len - 1]
                  IN  <<Token(sorted_patterns[k][2], first_token.pos,
                              first_token.base_form_id, first_token.start,
                              last_token.end)>>
                        \o MultiTokenMergesFrom(sorted_patterns, tokens, i + pattern_len)

apply_multi_token_merges(tokens) ==
    IF Len(tokens) < 2 THEN tokens
    ELSE MultiTokenMergesFrom(SortByLen(MULTI_TOKEN_MERGES), tokens, 1)

-----------------------------------------------------------------------------
(* Rewriter pass C, splitting (suffix_splitting.py)                        *)

word_exists_in_dict(lex, word) == Len(lookup(lex, word)) > 0

should_split_particle(lex, word, particle) ==
    /\ ~(Len(word) <= Len(particle))
    /\ word \notin NO_SPLIT_COMPOUNDS
    /\ word \notin MERGED_PARTICLE_COMPOUNDS
    /\ LET base == Slice(word, 0, Len(word) - Len(particle))
       IN  /\ ~(Len(base) = 1 /\ ~has_kanji(base))
           /\ word_exists_in_dict(lex, base)

\* the copula to split off, <<>> when there is none
should_split_copula(word) ==
    IF word = <<12424, 12358, 12384>> THEN <<12384>>             \* ようだ
    ELSE IF word = <<12399, 12378, 12384>> THEN <<12384>>        \* はずだ
    ELSE IF word = <<12363, 12425, 12384>> THEN <<12384>>        \* からだ
    ELSE IF /\ EndsWith(word, <<12424, 12358, 12384>>)
            /\ Len(word) > 3
            /\ word \notin NO_SPLIT_DA_WORDS
         THEN <<12384>>
    ELSE <<>>

should_split_conditional(word) == FALSE

should_split_explanatory_n(lex, word) ==
    /\ EndsWith(word, <<12435>>)                                 \* ん
    /\ word \notin NO_SPLIT_N_WORDS
    /\ ~(Len(word) < 2)
    /\ LET base == Slice(word, 0, Len(word) - 1)
       IN  /\ Len(base) > 0
           /\ <<base[Len(base)]>> \in N_SPLIT_BASE_ENDINGS
           /\ word_exists_in_dict(lex, base)

\* the two parts, <<>> for None; prefixes are tried as に, と, で, ん
should_split_prefix_particle(lex, word) ==
    LET rest == Slice(word, 1, Len(word))
        Try(p) == StartsWith(word, <<p>>) /\ Len(word) > 1
                    /\ word_exists_in_dict(lex, rest)
    IN  IF word \notin PREFIX_SPLIT_PATTERNS THEN <<>>
        ELSE IF Try(12395) THEN << <<12395>>, rest >>
        ELSE IF Try(12392) THEN << <<12392>>, rest >>
        ELSE IF Try(12391) THEN << <<12391>>, rest >>
        ELSE IF Try(12435) THEN << <<12435>>, rest >>
        ELSE <<>>

\* the explicit split of a surface in COMPOUND_VERB_SPLITS, <<>> if none
CompoundVerbSplit(surface) ==
    LET hits == {k \in 1..Len(COMPOUND_VERB_SPLITS) :
                    COMPOUND_VERB_SPLITS[k][1][1] = surface}
    IN  IF hits = {} THEN <<>> ELSE COMPOUND_VERB_SPLITS[CHOOSE k \in hits : TRUE][2]

RECURSIVE split_token(_, _)
\* split_internal_particles: INTERNAL_SPLIT_PARTICLES is empty, so its loop
\* body never runs and it returns None for every word.
split_internal_particles(lex, word) ==
    IF Len(word) < 4 \/ word \in NO_INTERNAL_SPLIT_COMPOUNDS THEN <<>>
    ELSE LET cuts == {<<p, i>> \in INTERNAL_SPLIT_PARTICLES \X (1..(Len(word) - 2)) :
                        /\ Slice(word, i, i + Len(p)) = p
                        /\ Len(Slice(word, i + Len(p), Len(word))) >= 2
                        /\ word_exists_in_dict(lex, Slice(word, 0, i))
                        /\ word_exists_in_dict(lex, Slice(word, i + Len(p), Len(word)))}
         IN  IF cuts = {} THEN <<>>
             ELSE LET c == CHOOSE c \in cuts : \A d \in cuts : c[2] <= d[2]
                  IN  split_token(lex, Slice(word, 0, c[2])) \o <<c[1]>>
                        \o split_token(lex, Slice(word, c[2] + Len(c[1]), Len(word)))

split_token(lex, surface) ==
    IF Len(surface) < 2 THEN <<surface>>
    ELSE IF CompoundVerbSplit(surface) # <<>> THEN CompoundVerbSplit(surface)
    ELSE IF should_split_prefix_particle(lex, surface) # <<>>
         THEN should_split_prefix_particle(lex, surface)
    ELSE IF split_internal_particles(lex, surface) # <<>>
         THEN split_internal_particles(lex, surface)
    ELSE LET particles == {p \in SPLIT_PARTICLES :
                              /\ EndsWith(surface, p) /\ Len(surface) > Len(p)
                              /\ should_split_particle(lex, surface, p)}
             copula == should_split_copula(surface)
         IN  IF particles # {}
             THEN LET particle == CHOOSE p \in particles : TRUE
                  IN  split_token(lex, Slice(surface, 0, Len(surface) - Len(particle)))
                        \o <<particle>>
             ELSE IF copula # <<>>
             THEN split_token(lex, Slice(surface, 0, Len(surface) - Len(copula)))
                    \o <<copula>>
             ELSE IF should_split_conditional(surface)
             THEN split_token(lex, Slice(surface, 0, Len(surface) - 1)) \o << <<12400>> >>
             ELSE IF should_split_explanatory_n(lex, surface)
             THEN split_token(lex, Slice(surface, 0, Len(surface) - 1)) \o << <<12435>> >>
             ELSE <<surface>>

\* Token of a part laid at pos: WordEntry has no pos_name attribute, so the
\* pos is the fallback; the id is the seq of the first record, 0 if no record.
PartToken(lex, part, fallback_pos, start, end) ==
    LET entries == lookup(lex, part)
    IN  Token(part, fallback_pos, IF entries # <<>> THEN entries[1].seq ELSE 0,
              start, end)

\* the tokens of parts laid one after another from current_pos
RECURSIVE PartTokens(_, _, _)
PartTokens(lex, parts, current_pos) ==
    IF parts = <<>> THEN <<>>
    ELSE <<PartToken(lex, Head(parts), "unk", current_pos,
                     current_pos + Len(Head(parts)))>>
           \o PartTokens(lex, Tail(parts), current_pos + Len(Head(parts)))

\* the first loop of post_process_splits
SplitTokens(lex, tokens) ==
    Join([i \in 1..Len(tokens) |->
            LET parts == split_token(lex, tokens[i].surface)
            IN  IF Len(parts) = 1 THEN <<tokens[i]>>
                ELSE PartTokens(lex, parts, tokens[i].start)])

-----------------------------------------------------------------------------
(* Rewriter pass C, substitutions and merges (suffix_splitting.py)         *)

RECURSIVE TokenSubstitutionsFrom(_, _, _)
TokenSubstitutionsFrom(lex, tokens, i) ==
    IF i > Len(tokens) THEN <<>>
    ELSE LET k == FirstRule(TOKEN_SUBSTITUTIONS, tokens, i)
         IN  IF k = 0
             THEN <<tokens[i]>> \o TokenSubstitutionsFrom(lex, tokens, i + 1)
             ELSE PartTokens(lex, TOKEN_SUBSTITUTIONS[k][2], tokens[i].start)
                    \o TokenSubstitutionsFrom(lex, tokens,
                                              i + Len(TOKEN_SUBSTITUTIONS[k][1]))

apply_token_substitutions(lex, tokens) ==
    IF Len(tokens) = 0 THEN tokens ELSE TokenSubstitutionsFrom(lex, tokens, 1)

\* get_pos_name(pos_id).startswith('v'): the names of ids 10 to 30
VerbPosNames ==
    {"v1", "v1-s", "v5aru", "v5b", "v5g", "v5k", "v5k-s", "v5m", "v5n", "v5r",
     "v5r-i", "v5s", "v5t", "v5u", "v5u-s", "v5uru", "vk", "vs", "vs-i",
     "vs-s", "vz"}

TAI_SUFFIXES ==
    << <<12383, 12356>>,                       \* たい
       <<12383, 12363, 12387, 12383>>,         \* たかった
       <<12383, 12367, 12394, 12356>> >>       \* たくない

\* index of the first record that is a continuative verb stem, 0 if none
VerbStemIndex(entries) ==
    LET hits == {k \in 1..Len(entries) :
                    /\ entries[k].conj_type = 13
                    /\ get_pos_name(entries[k].pos_id) \in VerbPosNames}
    IN  IF hits = {} THEN 0 ELSE CHOOSE k \in hits : \A m \in hits : k <= m

\* verb stem + たい / たかった / たくない
TaiMerge(lex, current, next_token) ==
    LET entries == lookup(lex, current.surface)
        k == VerbStemIndex(entries)
        conts == {m \in 1..Len(entries) : entries[m].conj_type = 13}
        be == entries[CHOOSE m \in conts : \A x \in conts : m <= x]
        SeqOf(e) == IF e.base_seq # 0 THEN e.base_seq ELSE e.seq
        base_id == IF next_token.surface = TAI_SUFFIXES[1]
                   THEN SeqOf(be) ELSE SeqOf(entries[k])
    IN  Token(current.surface \o next_token.surface,
              get_pos_name(entries[k].pos_id), base_id,
              current.start, next_token.end)

CanTaiMerge(lex, current, next_token) ==
    /\ next_token.surface \in Range(TAI_SUFFIXES)
    /\ VerbStemIndex(lookup(lex, current.surface)) # 0

CanSuruMerge(current, next_token) ==
    current.surface \in SURU_COMPOUND_NOUNS /\ next_token.surface \in SURU_FORMS

CanTeExtensionMerge(current, next_token) ==
    /\ EndsWith(current.surface, <<12390>>)                      \* て
    /\ next_token.surface \in TE_FORM_EXTENSIONS
    /\ EndsWith(current.surface, <<12375, 12390>>)               \* して
    /\ Len(current.surface) > 2
    /\ Slice(current.surface, 0, Len(current.surface) - 2) \in SURU_COMPOUND_NOUNS

RECURSIVE MergePatternsFrom(_, _, _)
MergePatternsFrom(lex, tokens, i) ==
    IF i > Len(tokens) THEN <<>>
    ELSE LET current == tokens[i]
             next_token == tokens[i + 1]
             has_next == i + 1 <= Len(tokens)
             k == FirstRule(MERGE_PATTERNS, tokens, i)
             Pair(fallback_pos) ==
                 PartToken(lex, current.surface \o next_token.surface,
                           fallback_pos, current.start, next_token.end)
         IN  IF has_next /\ CanTaiMerge(lex, current, next_token)
             THEN <<TaiMerge(lex, current, next_token)>>
                    \o MergePatternsFrom(lex, tokens, i + 2)
             ELSE IF has_next /\ CanSuruMerge(current, next_token)
             THEN <<Pair("vs")>> \o MergePatternsFrom(lex, tokens, i + 2)
             ELSE IF has_next /\ CanTeExtensionMerge(current, next_token)
             THEN <<Pair("v1")>> \o MergePatternsFrom(lex, tokens, i + 2)
             ELSE IF k # 0
             THEN LET pattern_len == Len(MERGE_PATTERNS[k][1])
                  IN  <<PartToken(lex, MERGE_PATTERNS[k][2], "unk", current.start,
                                  tokens[i + pattern_len - 1].end)>>
                        \o MergePatternsFrom(lex, tokens, i + pattern_len)
             ELSE <<current>> \o MergePatternsFrom(lex, tokens, i + 1)

apply_merge_patterns(lex, tokens) ==
    IF Len(tokens) < 2 THEN tokens ELSE MergePatternsFrom(lex, tokens, 1)

-----------------------------------------------------------------------------
(* analyze_text (tokenizer.py): the k best paths of the whole text, with   *)
(* no punctuation segmentation, no gap tokens and no rewriter.            *)

\* for path, score in paths: the tokens of the path's segments, and the score
AnalyzeResults(paths) ==
    [i \in 1..Len(paths) |->
        [tokens |-> [j \in 1..Len(paths[i].path) |->
                        SegToken(paths[i].path[j], 0)],
         score |-> paths[i].score]]

analyze_text(lex, text, limit) ==
    AnalyzeResults(find_best_path(find_all_matches(lex, text), Len(text),
                                  limit, TRUE))

-----------------------------------------------------------------------------
(* One call of tokenize(input) followed by analyze(input, klimit), on a    *)
(* loaded lexicon, and a second run of the rewriter on the tokens the      *)
(* first run returned.                                                     *)

F_youikuhi_kichinto == K_youikuhi \o K_kichinto     \* 養育費きちんと
F_maru              == <<12290>>                     \* 。
F_orinai_koto       == K_orinai \o K_koto            \* 下りないこと
F_niha              == K_ni \o K_ha                  \* には
F_tabetai           == K_tabe \o K_tai               \* 食べたい
F_tabeteiru         == K_tabete \o K_iru             \* 食べている
F_latin             == <<88>>                        \* X
F_oshieteageta      == <<25945, 12360, 12390, 12354, 12370, 12383>>  \* 教えてあげた

TextParts ==
    {F_youikuhi_kichinto, F_maru, K_shiteimasu, F_orinai_koto, F_niha,
     K_benkyou, K_kyouha, K_youda, F_tabetai, F_tabeteiru, F_latin, K_nekoni,
     K_kamo, F_oshieteageta}

\* the concatenations of exactly n parts
RECURSIVE TextsOf(_)
TextsOf(n) ==
    IF n = 0 THEN {<<>>}
    ELSE {f \o t : f \in TextParts, t \in TextsOf(n - 1)}

Texts == UNION {TextsOf(n) : n \in 1..MaxParts}

\* Variant: a loop runs its pass once.
LoopGoesOn_Once(tokens, prev) == prev = -1

\* `while len(tokens) != prev_len`, the condition of the three rewriter loops
LoopGoesOn(tokens, prev) == Len(tokens) # prev

\* a loop about to start on tokens
LoopOn(tokens) == [n0 |-> Len(tokens), iters |-> 0]

PipeOff ==
    /\ input = <<>>
    /\ lexicon = {}
    /\ stage = "off"
    /\ toks = <<>>
    /\ prev_len = -1
    /\ loop = LoopOn(<<>>)
    /\ round = 0
    /\ first = <<>>
    /\ klimit = 0
    /\ analysis = <<>>

\* no call of find_best_path, or of parse_number, is being followed
FbpOff == fbp = [stage |-> "off"]

NumOff == num = [stage |-> "off"]

LatOff == lat = [stage |-> "off"]

AdjOff == adj = [stage |-> "off"]

PoolOff == pool = [stage |-> "off"]

MoreOff == LatOff /\ AdjOff /\ PoolOff

LexLoaded ==
    /\ DICTIONARY = 1
    /\ BASE_FORMS = "None"
    /\ KANA_READINGS = "None"
    /\ mapped = {1}
    /\ created = 1
    /\ dicFile = "ok"

\* END-PIPELINE
-----------------------------------------------------------------------------
(* Lexicon singleton and its callers *)

FileStates == {"absent", "ok", "corrupt"}

\* str.strip() on a text over {" ", "x"}: drop leading and trailing blanks.
RECURSIVE LStrip(_)
LStrip(s) == IF s # <<>> /\ Head(s) = " " THEN LStrip(Tail(s)) ELSE s

RECURSIVE RStrip(_)
RStrip(s) == IF s # <<>> /\ s[Len(s)] = " "
             THEN RStrip(SubSeq(s, 1, Len(s) - 1)) ELSE s

Strip(s) == RStrip(LStrip(s))

\* Arguments the callers pass to tokenize / analyze.
TextArgs == {<<>>, <<" ">>, <<" ", "x">>}
LimitArgs == {0, 1}

\* `if not text or not text.strip()` of tokenize() and analyze().
TextRejected(text) == text = <<>> \/ Strip(text) = <<>>

\* `if limit < 1` of analyze().
LimitRejected(limit) == limit < 1

\* A thread outside any call.  op is the function whose frame the thread is
\* in: "tokenize" and "analyze" (the facade, before its argument checks),
\* "find_all_matches" (what both run once the checks pass), "load_dictionary"
\* (also warm_up, which only calls it) and "lookup" (also has_prefix and
\* contains, which have the same two steps).
Idle == [op |-> "none", pc |-> "idle", ret |-> "none",
         text |-> <<"x">>, limit |-> 1, result |-> "none"]

InitLex ==
    /\ DICTIONARY = 0
    /\ BASE_FORMS = "None"
    /\ KANA_READINGS = "None"
    /\ mapped = {}
    /\ created = 0
    /\ dicFile \in FileStates
    /\ th = [t \in Threads |-> Idle]
    /\ PipeOff
    /\ FbpOff
    /\ NumOff
    /\ MoreOff

\* A step of thread t; no call of the pipeline machine is in progress.
Set(t, r) ==
    /\ th' = [th EXCEPT ![t] = r]
    /\ UNCHANGED <<pipevars, fbp, num, morevars>>

\* A call returns (or raises): the thread is idle again and keeps the outcome.
Finish(t, res) == Set(t, [Idle EXCEPT !.result = res])

Start(o, p) == [Idle EXCEPT !.op = o, !.pc = p]

LexGlobalsUnchanged ==
    UNCHANGED <<DICTIONARY, BASE_FORMS, KANA_READINGS, mapped, created, dicFile>>

\* tokenize(text) is entered.
CallTokenize(t) ==
    /\ th[t].pc = "idle"
    /\ \E x \in TextArgs :
          Set(t, [Start("tokenize", "validate") EXCEPT !.text = x])
    /\ LexGlobalsUnchanged

\* analyze(text, limit) is entered.
CallAnalyze(t) ==
    /\ th[t].pc = "idle"
    /\ \E x \in TextArgs, k \in LimitArgs :
          Set(t, [Start("analyze", "validate") EXCEPT !.text = x, !.limit = k])
    /\ LexGlobalsUnchanged

\* Variant: the limit argument of analyze is not checked.
ValidateOK_IgnoresLimit(o, text, limit) == ~TextRejected(text)

\* The argument checks at the top of tokenize() and analyze().
ValidateOK(o, text, limit) ==
    IF o = "tokenize"
    THEN ~TextRejected(text)
    ELSE ~TextRejected(text) /\ ~LimitRejected(limit)

\* tokenize / analyze: raise ValueError, or go on to tokenize_text /
\* analyze_text, whose first lexicon access is find_all_matches' call of
\* load_dictionary().
Validate(t) ==
    /\ th[t].pc = "validate"
    /\ IF ValidateOK(th[t].op, th[t].text, th[t].limit)
       THEN Set(t, [Start("find_all_matches", "ld_check") EXCEPT !.ret = "check"])
       ELSE Finish(t, "ValueError")
    /\ LexGlobalsUnchanged

\* load_dictionary() is entered, directly or through warm_up().
CallLoadDictionary(t) ==
    /\ th[t].pc = "idle"
    /\ Set(t, [Start("load_dictionary", "ld_check") EXCEPT !.ret = "finish"])
    /\ LexGlobalsUnchanged

\* lookup(surface), has_prefix(prefix) or contains(surface) is entered.
CallLookup(t) ==
    /\ th[t].pc = "idle"
    /\ Set(t, Start("lookup", "check"))
    /\ LexGlobalsUnchanged

\* load_dictionary: `if _DICTIONARY is not None: return _DICTIONARY`
LdCheck(t) ==
    /\ th[t].pc = "ld_check"
    /\ IF DICTIONARY # 0
       THEN Set(t, [th[t] EXCEPT !.pc = "ld_ret"])
       ELSE Set(t, [th[t] EXCEPT !.pc = "ld_exists"])
    /\ LexGlobalsUnchanged

\* Variant: load_dictionary goes on without looking for the file.
LdExists_NoCheck(t) ==
    /\ th[t].pc = "ld_exists"
    /\ Set(t, [th[t] EXCEPT !.pc = "ld_create"])
    /\ LexGlobalsUnchanged

\* load_dictionary: `if not path.exists(): raise FileNotFoundError`
LdExists(t) ==
    /\ th[t].pc = "ld_exists"
    /\ IF dicFile = "absent"
       THEN Finish(t, "FileNotFoundError")
       ELSE Set(t, [th[t] EXCEPT !.pc = "ld_create"])
    /\ LexGlobalsUnchanged

\* load_dictionary: `_DICTIONARY = marisa_trie.RecordTrie(RECORD_FORMAT)`
LdCreate(t) ==
    /\ th[t].pc = "ld_create"
    /\ created' = created + 1
    /\ DICTIONARY' = created + 1
    /\ Set(t, [th[t] EXCEPT !.pc = "ld_mmap"])
    /\ UNCHANGED <<BASE_FORMS, KANA_READINGS, mapped, dicFile>>

\* load_dictionary: `_DICTIONARY.mmap(str(path))`, on whatever object the
\* global names now; a corrupt artifact makes mmap raise.
LdMmap(t) ==
    /\ th[t].pc = "ld_mmap"
    /\ IF dicFile = "ok"
       THEN /\ mapped' = mapped \cup {DICTIONARY}
            /\ Set(t, [th[t] EXCEPT !.pc = "ld_ret"])
       ELSE /\ mapped' = mapped
            /\ Finish(t, "LexiconCorrupt")
    /\ UNCHANGED <<DICTIONARY, BASE_FORMS, KANA_READINGS, created, dicFile>>

\* load_dictionary: `return _DICTIONARY`, back in the caller.
LdReturn(t) ==
    /\ th[t].pc = "ld_ret"
    /\ IF th[t].ret = "finish"
       THEN Finish(t, "ok")
       ELSE Set(t, [th[t] EXCEPT !.pc = th[t].ret, !.ret = "none"])
    /\ LexGlobalsUnchanged

\* lookup / has_prefix / contains: `if _DICTIONARY is None: load_dictionary()`
Check(t) ==
    /\ th[t].pc = "check"
    /\ IF DICTIONARY = 0
       THEN Set(t, [th[t] EXCEPT !.pc = "ld_check", !.ret = "read"])
       ELSE Set(t, [th[t] EXCEPT !.pc = "read"])
    /\ LexGlobalsUnchanged

\* After a query on a mapped trie: find_all_matches goes on to its next
\* has_prefix / lookup or has tried every span; lookup, has_prefix and
\* contains return.
ReadDone(t) ==
    \/ /\ th[t].op = "find_all_matches"
       /\ Set(t, [th[t] EXCEPT !.pc = "check"])
    \/ Finish(t, "ok")

\* lookup / has_prefix / contains: the query on `_DICTIONARY` itself.  A trie
\* that is not memory-mapped yet holds no keys: the query raises, or it
\* misses and the call ends with an answer the lexicon does not give (the
\* queries a tokenization makes after that one do not change this outcome).
Read(t) ==
    /\ th[t].pc = "read"
    /\ IF DICTIONARY \in mapped
       THEN ReadDone(t)
       ELSE \/ Finish(t, "TrieError")
            \/ Finish(t, "wrong")
    /\ LexGlobalsUnchanged

\* get_kana_reading(seq) -> load_kana_readings(): a missing file gives the
\* empty table, a file that fails to parse leaves the entries read so far.
GetKanaReading(t) ==
    /\ th[t].pc = "idle"
    /\ IF KANA_READINGS # "None"
       THEN /\ KANA_READINGS' = KANA_READINGS
            /\ Finish(t, "ok")
       ELSE \/ /\ KANA_READINGS' = "loaded"
               /\ Finish(t, "ok")
            \/ /\ KANA_READINGS' = "partial"
               /\ Finish(t, "LexiconCorrupt")
    /\ UNCHANGED <<DICTIONARY, BASE_FORMS, mapped, created, dicFile>>

\* Variant: unload_dictionary closes the trie and leaves the handle in place.
UnloadDictionary_KeepsHandle(t) ==
    /\ \A u \in Threads : th[u].pc = "idle"
    /\ DICTIONARY' = DICTIONARY
    /\ BASE_FORMS' = "None"
    /\ KANA_READINGS' = "None"
    /\ mapped' = {}
    /\ created' = created
    /\ Finish(t, "unloaded")
    /\ UNCHANGED dicFile

\* Variant: unload_dictionary leaves the kana readings table in place.
UnloadDictionary_KeepsKana(t) ==
    /\ \A u \in Threads : th[u].pc = "idle"
    /\ DICTIONARY' = 0
    /\ BASE_FORMS' = "None"
    /\ KANA_READINGS' = KANA_READINGS
    /\ mapped' = {}
    /\ created' = 0
    /\ Finish(t, "unloaded")
    /\ UNCHANGED dicFile

\* unload_dictionary().  The caller quiesces all requests first (spec.md,
\* section 5), so no other thread is inside a call; the tries of the epoch
\* that ends are unreachable from then on.
UnloadDictionary(t) ==
    /\ \A u \in Threads : th[u].pc = "idle"
    /\ DICTIONARY' = 0
    /\ BASE_FORMS' = "None"
    /\ KANA_READINGS' = "None"
    /\ mapped' = {}
    /\ created' = 0
    /\ Finish(t, "unloaded")
    /\ UNCHANGED dicFile

\* The environment puts the lexicon artifact in place.
InstallArtifact ==
    /\ dicFile = "absent"
    /\ dicFile' \in {"ok", "corrupt"}
    /\ UNCHANGED <<DICTIONARY, BASE_FORMS, KANA_READINGS, mapped, created, th>>
    /\ UNCHANGED <<pipevars, fbp, num, morevars>>

ThreadStep(t) ==
    \/ CallTokenize(t)
    \/ CallAnalyze(t)
    \/ Validate(t)
    \/ CallLoadDictionary(t)
    \/ CallLookup(t)
    \/ LdCheck(t)
    \/ LdExists(t)
    \/ LdCreate(t)
    \/ LdMmap(t)
    \/ LdReturn(t)
    \/ Check(t)
    \/ Read(t)
    \/ UnloadDictionary(t)

NextLex ==
    \/ \E t \in Threads : ThreadStep(t)
    \/ InstallArtifact

SpecLex == InitLex /\ [][NextLex]_vars

\* The callers take turns: a call runs to its end before the next one starts.
\* The kana readings table, which no step of a tokenization reads, is followed
\* here, through its load on demand and its reset by unload_dictionary.
NextSeq ==
    \/ \E t \in Threads :
          /\ \A u \in Threads \ {t} : th[u].pc = "idle"
          /\ ThreadStep(t)
    \/ \E t \in Threads :
          /\ \A u \in Threads \ {t} : th[u].pc = "idle"
          /\ GetKanaReading(t)
    \/ InstallArtifact

SpecSeq == InitLex /\ [][NextSeq]_vars

-----------------------------------------------------------------------------
(* Spec: the pipeline *)

Init ==
    /\ LexLoaded
    /\ th = [t \in Threads |-> Idle]
    /\ input \in Texts
    /\ lexicon \in Lexicons
    /\ stage = "call"
    /\ toks = <<>>
    /\ prev_len = -1
    /\ loop = LoopOn(<<>>)
    /\ round = 1
    /\ first = <<>>
    /\ klimit = 0
    /\ analysis = <<>>
    /\ FbpOff
    /\ NumOff
    /\ MoreOff

\* tokenize_text up to the first rewriter loop
TokenizeText ==
    /\ stage = "call"
    /\ toks' = InitialTokens(lexicon, input)
    /\ prev_len' = -1
    /\ stage' = "merge_compound_verbs"
    /\ loop' = LoopOn(toks')
    /\ UNCHANGED <<lexvars, fbp, num, morevars, input, lexicon, round, first, klimit, analysis>>

\* one iteration of: while len(tokens) != prev_len
MergeCompoundVerbs ==
    /\ stage = "merge_compound_verbs"
    /\ LoopGoesOn(toks, prev_len)
    /\ prev_len' = Len(toks)
    /\ toks' = merge_compound_verbs(toks)
    /\ loop' = [loop EXCEPT !.iters = @ + 1]
    /\ UNCHANGED <<lexvars, fbp, num, morevars, input, lexicon, stage, round, first, klimit, analysis>>

MergeCompoundVerbsExit ==
    /\ stage = "merge_compound_verbs"
    /\ ~LoopGoesOn(toks, prev_len)
    /\ prev_len' = -1
    /\ stage' = "apply_multi_token_merges"
    /\ loop' = LoopOn(toks)
    /\ UNCHANGED <<lexvars, fbp, num, morevars, input, lexicon, toks, round, first, klimit, analysis>>

MultiTokenMerges ==
    /\ stage = "apply_multi_token_merges"
    /\ LoopGoesOn(toks, prev_len)
    /\ prev_len' = Len(toks)
    /\ toks' = apply_multi_token_merges(toks)
    /\ loop' = [loop EXCEPT !.iters = @ + 1]
    /\ UNCHANGED <<lexvars, fbp, num, morevars, input, lexicon, stage, round, first, klimit, analysis>>

MultiTokenMergesExit ==
    /\ stage = "apply_multi_token_merges"
    /\ ~LoopGoesOn(toks, prev_len)
    /\ stage' = "post_process_splits"
    /\ UNCHANGED loop
    /\ UNCHANGED <<lexvars, fbp, num, morevars, input, lexicon, toks, prev_len, round, first,
                   klimit, analysis>>

\* post_process_splits up to its merge loop
PostProcessSplits ==
    /\ stage = "post_process_splits"
    /\ toks' = apply_token_substitutions(lexicon, SplitTokens(lexicon, toks))
    /\ prev_len' = -1
    /\ stage' = "apply_merge_patterns"
    /\ loop' = LoopOn(toks')
    /\ UNCHANGED <<lexvars, fbp, num, morevars, input, lexicon, round, first, klimit, analysis>>

MergePatterns ==
    /\ stage = "apply_merge_patterns"
    /\ LoopGoesOn(toks, prev_len)
    /\ prev_len' = Len(toks)
    /\ toks' = apply_merge_patterns(lexicon, toks)
    /\ loop' = [loop EXCEPT !.iters = @ + 1]
    /\ UNCHANGED <<lexvars, fbp, num, morevars, input, lexicon, stage, round, first, klimit, analysis>>

MergePatternsExit ==
    /\ stage = "apply_merge_patterns"
    /\ ~LoopGoesOn(toks, prev_len)
    /\ stage' = "done"
    /\ UNCHANGED loop
    /\ UNCHANGED <<lexvars, fbp, num, morevars, input, lexicon, toks, prev_len, round, first,
                   klimit, analysis>>

\* analyze(input, limit) with a valid limit
AnalyzeText ==
    /\ stage = "done"
    /\ round = 1
    /\ klimit = 0
    /\ \E limit \in 1..MaxLimit :
          /\ klimit' = limit
          /\ analysis' = analyze_text(lexicon, input, limit)
    /\ UNCHANGED loop
    /\ UNCHANGED <<lexvars, fbp, num, morevars, input, lexicon, stage, toks, prev_len, round, first>>

\* the rewriter is run again, on the tokens it returned
RewriteAgain ==
    /\ stage = "done"
    /\ round = 1
    /\ first' = toks
    /\ round' = 2
    /\ prev_len' = -1
    /\ stage' = "merge_compound_verbs"
    /\ loop' = LoopOn(toks)
    /\ UNCHANGED <<lexvars, fbp, num, morevars, input, lexicon, toks, klimit, analysis>>

Next ==
    \/ TokenizeText
    \/ MergeCompoundVerbs
    \/ MergeCompoundVerbsExit
    \/ MultiTokenMerges
    \/ MultiTokenMergesExit
    \/ PostProcessSplits
    \/ MergePatterns
    \/ MergePatternsExit
    \/ AnalyzeText
    \/ RewriteAgain

Spec == Init /\ [][Next]_vars

-----------------------------------------------------------------------------
(* SpecRw: one call of tokenize(input) on the whole lexicon, its rewriter   *)
(* loops followed one iteration at a time.                                  *)

InitRw ==
    /\ Init
    /\ lexicon = LexKeys

NextRw ==
    \/ TokenizeText
    \/ MergeCompoundVerbs
    \/ MergeCompoundVerbsExit
    \/ MultiTokenMerges
    \/ MultiTokenMergesExit
    \/ PostProcessSplits
    \/ MergePatterns
    \/ MergePatternsExit

SpecRw == InitRw /\ [][NextRw]_vars

-----------------------------------------------------------------------------
(* SpecDP: one call of find_best_path(matches, text_length, limit), followed *)
(* through its forward pass one loop iteration at a time.  allow_gaps keeps *)
(* its default, True: no caller of the repository passes it.               *)

\* A Segment of the span (start, end), with its score and its entry's cost
LatticeSegment(start, end, score, cost) ==
    LET surface == [i \in 1..(end - start) |-> 120]
    IN  [surface |-> surface, start |-> start, end |-> end,
         entry |-> [surface |-> surface, seq |-> 1000 + cost, cost |-> cost,
                    pos_id |-> 1, conj_type |-> 0, base_seq |-> 0],
         score |-> score]

\* The segment lists a span may carry: one segment, or three of which the
\* last two share the highest score and the later one has the lower cost.
SpanChoices(start, end) ==
    << <<LatticeSegment(start, end, 100 + 60 * (end - start), 10)>>,
       <<LatticeSegment(start, end, -50, 60),
         LatticeSegment(start, end, 40 * (end - start), 15),
         LatticeSegment(start, end, 40 * (end - start), 12)>> >>

Spans(n) == {sp \in (0..(n - 1)) \X (1..n) : sp[1] < sp[2]}

\* the elements of a set of numbers, rising
RECURSIVE Ascending(_)
Ascending(S) ==
    IF S = {} THEN <<>>
    ELSE LET m == CHOOSE x \in S : \A y \in S : x <= y
         IN  <<m>> \o Ascending(S \ {m})

\* matches for the spans S, span sp carrying the list SpanChoices(sp)[c[sp]]:
\* keyed by start, the spans of a start in the order find_all_matches
\* inserts them (end rising).
Lattice(n, S, c) ==
    [start \in 0..(n - 1) |->
        LET ends == Ascending({sp[2] : sp \in {x \in S : x[1] = start}})
        IN  [i \in 1..Len(ends) |->
                <<ends[i],
                  SpanChoices(start, ends[i])[c[<<start, ends[i]>>]]>>]]

InitDP ==
    /\ LexLoaded
    /\ th = [t \in Threads |-> Idle]
    /\ PipeOff
    /\ NumOff
    /\ MoreOff
    /\ \E n \in 1..MaxLen, k \in 1..MaxLimit :
          \E S \in SUBSET Spans(n) :
             /\ Cardinality(S) <= MaxSpans
             /\ \E c \in [S -> 1..2] :
                   fbp = [stage |-> "call", matches |-> Lattice(n, S, c),
                          text_length |-> n, limit |-> k, dp |-> <<>>,
                          pos |-> 0, span |-> 1, ent |-> 1, results |-> <<>>]

\* `if not matches: return []`, else dp = {0: [(0.0, None, None)]}
FbpEnter ==
    /\ fbp.stage = "call"
    /\ IF NoMatches(fbp.matches)
       THEN fbp' = [fbp EXCEPT !.stage = "done"]
       ELSE fbp' = [fbp EXCEPT !.stage = "pos",
                               !.dp = InitialDp(fbp.text_length)]
    /\ UNCHANGED <<lexvars, pipevars, num, morevars>>

\* `if pos not in dp`: the skip transitions from the nearest reachable
\* position; `continue` if there is none.
FbpGap ==
    /\ fbp.stage = "pos"
    /\ fbp.pos <= fbp.text_length
    /\ fbp.dp[fbp.pos] = <<>>
    /\ LET gap == GapEntries(fbp.dp, fbp.pos)
       IN  IF gap = <<>>
           THEN fbp' = [fbp EXCEPT !.pos = @ + 1]
           ELSE fbp' = [fbp EXCEPT !.dp[fbp.pos] = gap, !.stage = "spans",
                                   !.span = 1, !.ent = 1]
    /\ UNCHANGED <<lexvars, pipevars, num, morevars>>

\* pos is in dp: on to the spans that start at pos
FbpVisit ==
    /\ fbp.stage = "pos"
    /\ fbp.pos <= fbp.text_length
    /\ fbp.dp[fbp.pos] # <<>>
    /\ fbp' = [fbp EXCEPT !.stage = "spans", !.span = 1, !.ent = 1]
    /\ UNCHANGED <<lexvars, pipevars, num, morevars>>

\* the spans of matches that start at pos (none start at text_length)
SpansAt(matches, text_length, pos) ==
    IF pos < text_length THEN matches[pos] ELSE <<>>

\* one iteration of `for prev_score, _, _ in dp[pos]` for the span at hand
FbpRelax ==
    /\ fbp.stage = "spans"
    /\ LET spans == SpansAt(fbp.matches, fbp.text_length, fbp.pos)
       IN  /\ fbp.span <= Len(spans)
           /\ LET end == spans[fbp.span][1]
                  best_seg == BestSeg(spans[fbp.span][2])
                  last == fbp.ent = Len(fbp.dp[fbp.pos])
              IN  fbp' = [fbp EXCEPT
                            !.dp = RelaxEntry(fbp.dp, fbp.pos, end, best_seg,
                                              fbp.limit, fbp.ent),
                            !.span = IF last THEN @ + 1 ELSE @,
                            !.ent = IF last THEN 1 ELSE @ + 1]
    /\ UNCHANGED <<lexvars, pipevars, num, morevars>>

\* every span that starts at pos is done: the next pos
FbpNextPos ==
    /\ fbp.stage = "spans"
    /\ fbp.span > Len(SpansAt(fbp.matches, fbp.text_length, fbp.pos))
    /\ fbp' = [fbp EXCEPT !.stage = "pos", !.pos = @ + 1]
    /\ UNCHANGED <<lexvars, pipevars, num, morevars>>

\* after the loop: backtrack from every entry of dp[text_length], sort, return
FbpReturn ==
    /\ fbp.stage = "pos"
    /\ fbp.pos = fbp.text_length + 1
    /\ fbp' = [fbp EXCEPT !.stage = "done",
                          !.results = SelectResults(fbp.dp, fbp.text_length,
                                                    fbp.limit)]
    /\ UNCHANGED <<lexvars, pipevars, num, morevars>>

NextDP ==
    \/ FbpEnter
    \/ FbpGap
    \/ FbpVisit
    \/ FbpRelax
    \/ FbpNextPos
    \/ FbpReturn

SpecDP == InitDP /\ [][NextDP]_vars

\* The run, one iteration at a time, returns what find_best_path returns.
FbpAgrees ==
    fbp.stage = "done" =>
        fbp.results = find_best_path(fbp.matches, fbp.text_length, fbp.limit, TRUE)


-----------------------------------------------------------------------------
(* SpecLat: one call of find_all_matches(text) on the loaded lexicon,       *)
(* followed one iteration of its loops at a time.                          *)

\* The characters of the texts: two kanji and kana of lexicon keys, a sokuon
\* and a long vowel sign.
LatChars == {29483, 12395, 12363, 12418, 12387, 12540}    \* 猫 に か も っ ー

\* the texts of n characters
RECURSIVE LatTextsOf(_)
LatTextsOf(n) ==
    IF n = 0 THEN {<<>>}
    ELSE {<<c>> \o t : c \in LatChars, t \in LatTextsOf(n - 1)}

LatTexts == UNION {LatTextsOf(n) : n \in 1..MaxLen}

InitLat ==
    /\ LexLoaded
    /\ th = [t \in Threads |-> Idle]
    /\ PipeOff
    /\ FbpOff
    /\ NumOff
    /\ AdjOff
    /\ PoolOff
    /\ \E text \in LatTexts :
          lat = [stage |-> "call", text |-> text, lex |-> LexKeys,
                 sticky |-> {}, start |-> 0, end |-> 0,
                 matches |-> [s \in 0..(Len(text) - 1) |-> <<>>]]

LatFrame == UNCHANGED <<lexvars, pipevars, fbp, num, adj, pool>>

\* matches = {}, sticky = set(find_sticky_positions(text)), load_dictionary()
LatEnter ==
    /\ lat.stage = "call"
    /\ lat' = [lat EXCEPT !.stage = "start",
                          !.sticky = find_sticky_positions(lat.text)]
    /\ LatFrame

\* for start in range(text_len): `if start in sticky: continue`, else on to
\* the ends from start + 1
LatStart ==
    /\ lat.stage = "start"
    /\ lat.start < Len(lat.text)
    /\ IF lat.start \in lat.sticky
       THEN lat' = [lat EXCEPT !.start = @ + 1]
       ELSE lat' = [lat EXCEPT !.stage = "end", !.end = lat.start + 1]
    /\ LatFrame

\* the range of ends is used up: the next start
LatEndsDone ==
    /\ lat.stage = "end"
    /\ EndsUsedUp(lat.text, lat.start, lat.end)
    /\ lat' = [lat EXCEPT !.stage = "start", !.start = @ + 1]
    /\ LatFrame

\* `if end in sticky: continue`
LatSkipEnd ==
    /\ lat.stage = "end"
    /\ ~EndsUsedUp(lat.text, lat.start, lat.end)
    /\ EndSkipped(lat.sticky, lat.end)
    /\ lat' = [lat EXCEPT !.end = @ + 1]
    /\ LatFrame

\* `if not has_prefix(substring): break`
LatBreak ==
    /\ lat.stage = "end"
    /\ ~EndsUsedUp(lat.text, lat.start, lat.end)
    /\ ~EndSkipped(lat.sticky, lat.end)
    /\ ~has_prefix(lat.lex, Slice(lat.text, lat.start, lat.end))
    /\ lat' = [lat EXCEPT !.stage = "start", !.start = @ + 1]
    /\ LatFrame

\* entries = lookup(substring); `if entries:` one Segment per entry goes to
\* matches[(start, end)]
LatLookup ==
    /\ lat.stage = "end"
    /\ ~EndsUsedUp(lat.text, lat.start, lat.end)
    /\ ~EndSkipped(lat.sticky, lat.end)
    /\ has_prefix(lat.lex, Slice(lat.text, lat.start, lat.end))
    /\ LET segments == SpanSegments(lat.lex, lat.text, lat.start, lat.end)
       IN  lat' = [lat EXCEPT
                     !.matches[lat.start] =
                        IF segments # <<>>
                        THEN Append(@, <<lat.end, segments>>) ELSE @,
                     !.end = @ + 1]
    /\ LatFrame

\* return matches
LatReturn ==
    /\ lat.stage = "start"
    /\ lat.start = Len(lat.text)
    /\ lat' = [lat EXCEPT !.stage = "done"]
    /\ LatFrame

NextLat ==
    \/ LatEnter
    \/ LatStart
    \/ LatEndsDone
    \/ LatSkipEnd
    \/ LatBreak
    \/ LatLookup
    \/ LatReturn

SpecLat == InitLat /\ [][NextLat]_vars

\* The loops build what find_all_matches, written as one expression, gives.
LatAgrees ==
    lat.stage = "done" => lat.matches = find_all_matches(lat.lex, lat.text)

-----------------------------------------------------------------------------
(* SpecAdj: one call of calculate_split_score_adjustment(surface, seq)      *)
(* (splits.py), on every seq of the split tables or the seq of an entry     *)
(* that is in none, and every surface of the split word sets or a surface   *)
(* that is in none.                                                         *)

AdjSeqs == ALL_SPLIT_SEQS \cup {1467640}

AdjSurfaces ==
    DE_SUFFIX_WORDS \cup TOORI_SUFFIX_WORDS \cup DO_PREFIX_WORDS
        \cup SHI_PREFIX_WORDS \cup {e[1] : e \in COMPLEX_PATTERN_WORDS}
        \cup {K_neko}

InitAdj ==
    /\ LexLoaded
    /\ th = [t \in Threads |-> Idle]
    /\ PipeOff
    /\ FbpOff
    /\ NumOff
    /\ LatOff
    /\ PoolOff
    /\ \E surface \in AdjSurfaces, seq \in AdjSeqs :
          adj = [stage |-> "call", surface |-> surface, seq |-> seq,
                 bonus |-> 0, result |-> 0]

AdjFrame == UNCHANGED <<lexvars, pipevars, fbp, num, lat, pool>>

\* `if not should_split(surface, seq): return 0.0`
AdjNoSplit ==
    /\ adj.stage = "call"
    /\ ~should_split(adj.surface, adj.seq)
    /\ adj' = [adj EXCEPT !.stage = "done", !.result = 0]
    /\ AdjFrame

\* `bonus = get_split_score_bonus(surface, seq)`
AdjBonus ==
    /\ adj.stage = "call"
    /\ should_split(adj.surface, adj.seq)
    /\ adj' = [adj EXCEPT !.stage = "bonus",
                          !.bonus = get_split_score_bonus(adj.surface, adj.seq)]
    /\ AdjFrame

\* `return -bonus`
AdjReturn ==
    /\ adj.stage = "bonus"
    /\ adj' = [adj EXCEPT !.stage = "done", !.result = 0 - adj.bonus]
    /\ AdjFrame

NextAdj ==
    \/ AdjNoSplit
    \/ AdjBonus
    \/ AdjReturn

SpecAdj == InitAdj /\ [][NextAdj]_vars

\* The steps return what calculate_split_score_adjustment gives at once.
AdjAgrees ==
    adj.stage = "done" =>
        adj.result = calculate_split_score_adjustment(adj.surface, adj.seq)

-----------------------------------------------------------------------------
(* SpecPool: threads calling tokenize_async / analyze_async and shutdown()  *)
(* (__init__.py), one statement at a time.  Executors and locks are         *)
(* numbered in the order they are made; None is 0.                          *)

\* a caller outside any call
PoolIdle == [pc |-> "idle", lk |-> 0, ex |-> 0, out |-> "none", calls |-> 0]

InitPool ==
    /\ LexLoaded
    /\ th = [t \in Threads |-> Idle]
    /\ PipeOff
    /\ FbpOff
    /\ NumOff
    /\ LatOff
    /\ AdjOff
    /\ pool = [stage |-> "on", executor |-> 0, lock |-> 0, locks |-> 0,
               held |-> {}, made |-> 0, down |-> {},
               c |-> [t \in Threads |-> PoolIdle]]

PoolFrame == UNCHANGED <<lexvars, pipevars, fbp, num, lat, adj>>

\* caller t goes to pc
PoolGo(t, pc) == [pool.c EXCEPT ![t].pc = pc]

\* tokenize_async / analyze_async is entered: `executor = _get_executor()`
CallAsync(t) ==
    /\ pool.c[t].pc = "idle"
    /\ pool.c[t].calls < MaxCalls
    /\ pool' = [pool EXCEPT !.c[t] = [pc |-> "lock_check", lk |-> 0, ex |-> 0,
                                      out |-> "none", calls |-> @.calls + 1]]
    /\ PoolFrame

\* _get_executor: `if _executor_lock is None`
GeLockCheck(t) ==
    /\ pool.c[t].pc = "lock_check"
    /\ pool' = [pool EXCEPT !.c = PoolGo(t, IF pool.lock = 0 THEN "lock_make"
                                            ELSE "lock_read")]
    /\ PoolFrame

\* _get_executor: `_executor_lock = threading.Lock()`
GeLockMake(t) ==
    /\ pool.c[t].pc = "lock_make"
    /\ pool' = [pool EXCEPT !.locks = @ + 1, !.lock = pool.locks + 1,
                            !.c = PoolGo(t, "lock_read")]
    /\ PoolFrame

\* _get_executor: `with _executor_lock`, the lock the global names now
GeLockRead(t) ==
    /\ pool.c[t].pc = "lock_read"
    /\ pool' = [pool EXCEPT !.c[t] = [@ EXCEPT !.pc = "acquire",
                                                !.lk = pool.lock]]
    /\ PoolFrame

\* _get_executor: `with _executor_lock`, the lock is taken once it is free
GeAcquire(t) ==
    /\ pool.c[t].pc = "acquire"
    /\ pool.c[t].lk \notin pool.held
    /\ pool' = [pool EXCEPT !.held = @ \cup {pool.c[t].lk},
                            !.c = PoolGo(t, "ex_check")]
    /\ PoolFrame

\* _get_executor: `if _executor is None`
GeExCheck(t) ==
    /\ pool.c[t].pc = "ex_check"
    /\ pool' = [pool EXCEPT !.c = PoolGo(t, IF pool.executor = 0 THEN "ex_make"
                                            ELSE "release")]
    /\ PoolFrame

\* _get_executor: `_executor = ThreadPoolExecutor(...)`
GeExMake(t) ==
    /\ pool.c[t].pc = "ex_make"
    /\ pool' = [pool EXCEPT !.made = @ + 1, !.executor = pool.made + 1,
                            !.c = PoolGo(t, "release")]
    /\ PoolFrame

\* _get_executor: the end of the with block
GeRelease(t) ==
    /\ pool.c[t].pc = "release"
    /\ pool' = [pool EXCEPT !.held = @ \ {pool.c[t].lk},
                            !.c = PoolGo(t, "return")]
    /\ PoolFrame

\* _get_executor: `return _executor`
GeReturn(t) ==
    /\ pool.c[t].pc = "return"
    /\ pool' = [pool EXCEPT !.c[t] = [@ EXCEPT !.pc = "submit",
                                                !.ex = pool.executor]]
    /\ PoolFrame

\* `loop.run_in_executor(executor, ...)`: None selects the loop's default
\* executor, and an executor that was shut down raises RuntimeError.
Submit(t) ==
    /\ pool.c[t].pc = "submit"
    /\ pool' = [pool EXCEPT !.c[t] =
                   [@ EXCEPT !.pc = "idle",
                             !.out = IF pool.c[t].ex = 0 THEN "default"
                                     ELSE IF pool.c[t].ex \in pool.down
                                          THEN "RuntimeError"
                                     ELSE "submitted"]]
    /\ PoolFrame

\* shutdown() is entered
CallShutdown(t) ==
    /\ pool.c[t].pc = "idle"
    /\ pool.c[t].calls < MaxCalls
    /\ pool' = [pool EXCEPT !.c[t] = [pc |-> "sd_check", lk |-> 0, ex |-> 0,
                                      out |-> "none", calls |-> @.calls + 1]]
    /\ PoolFrame

\* shutdown: `if _executor is not None`
SdCheck(t) ==
    /\ pool.c[t].pc = "sd_check"
    /\ pool' = [pool EXCEPT !.c[t] =
                   IF pool.executor # 0 THEN [@ EXCEPT !.pc = "sd_shutdown"]
                   ELSE [@ EXCEPT !.pc = "idle", !.out = "ok"]]
    /\ PoolFrame

\* shutdown: `_executor.shutdown(wait=True)`, on what the global names now
SdShutdown(t) ==
    /\ pool.c[t].pc = "sd_shutdown"
    /\ pool' = IF pool.executor = 0
               THEN [pool EXCEPT !.c[t] = [@ EXCEPT !.pc = "idle",
                                                    !.out = "AttributeError"]]
               ELSE [pool EXCEPT !.down = @ \cup {pool.executor},
                                 !.c = PoolGo(t, "sd_clear")]
    /\ PoolFrame

\* shutdown: `_executor = None`
SdClear(t) ==
    /\ pool.c[t].pc = "sd_clear"
    /\ pool' = [pool EXCEPT !.executor = 0,
                            !.c[t] = [@ EXCEPT !.pc = "idle", !.out = "ok"]]
    /\ PoolFrame

NextPool ==
    \/ \E t \in Threads : CallAsync(t)
    \/ \E t \in Threads : GeLockCheck(t)
    \/ \E t \in Threads : GeLockMake(t)
    \/ \E t \in Threads : GeLockRead(t)
    \/ \E t \in Threads : GeAcquire(t)
    \/ \E t \in Threads : GeExCheck(t)
    \/ \E t \in Threads : GeExMake(t)
    \/ \E t \in Threads : GeRelease(t)
    \/ \E t \in Threads : GeReturn(t)
    \/ \E t \in Threads : Submit(t)
    \/ \E t \in Threads : CallShutdown(t)
    \/ \E t \in Threads : SdCheck(t)
    \/ \E t \in Threads : SdShutdown(t)
    \/ \E t \in Threads : SdClear(t)

SpecPool == InitPool /\ [][NextPool]_vars

-----------------------------------------------------------------------------
(* SpecNum: one call of parse_number (counters.py) on the decimal string   *)
(* or on the kanji numeral of a number, the kanji loop one character at a  *)
(* time.  None is -1.                                                      *)

\* value of a number kanji
KANJI_NUMBERS ==
    [c \in {38646, 12295, 19968, 22769, 20108, 24336, 19977, 21442, 22235,
            20116, 20845, 19971, 20843, 20061, 21313, 30334, 21315, 19975,
            20740} |->
        CASE c \in {38646, 12295} -> 0           \* 零 〇
          [] c \in {19968, 22769} -> 1           \* 一 壱
          [] c \in {20108, 24336} -> 2           \* 二 弐
          [] c \in {19977, 21442} -> 3           \* 三 参
          [] c = 22235 -> 4                      \* 四
          [] c = 20116 -> 5                      \* 五
          [] c = 20845 -> 6                      \* 六
          [] c = 19971 -> 7                      \* 七
          [] c = 20843 -> 8                      \* 八
          [] c = 20061 -> 9                      \* 九
          [] c = 21313 -> 10                     \* 十
          [] c = 30334 -> 100                    \* 百
          [] c = 21315 -> 1000                   \* 千
          [] c = 19975 -> 10000                  \* 万
          [] c = 20740 -> 100000000]             \* 億

\* value of an arabic digit, half-width (0 to 9) or full-width (０ to ９)
DIGIT_VALUES ==
    [c \in (48..57) \cup (65296..65305) |->
        IF c <= 57 THEN c - 48 ELSE c - 65296]

RECURSIVE Pow10(_)
Pow10(e) == IF e = 0 THEN 1 ELSE 10 * Pow10(e - 1)

\* str(n): the decimal digits of n, half-width
RECURSIVE Decimal(_)
Decimal(n) ==
    IF n < 10 THEN <<48 + n>> ELSE Decimal(n \div 10) \o <<48 + (n % 10)>>

\* 一 to 九
KanjiDigit(d) ==
    <<19968, 20108, 19977, 22235, 20116, 20845, 19971, 20843, 20061>>[d]

\* the numeral of 1 <= m <= 9999: for each non-zero decimal digit the digit
\* (left out when it is 1) and its unit 千, 百 or 十, then the ones digit
KanjiBelowMan(m) ==
    LET Place(d, unit) ==
            IF d = 0 THEN <<>>
            ELSE (IF d = 1 THEN <<>> ELSE <<KanjiDigit(d)>>) \o <<unit>>
        ones == m % 10
    IN  Place(m \div 1000, 21315) \o Place((m \div 100) % 10, 30334)
          \o Place((m \div 10) % 10, 21313)
          \o (IF ones = 0 THEN <<>> ELSE <<KanjiDigit(ones)>>)

\* the kanji numeral of 0 <= n <= 99,999,999: 零, or the count of 万
\* followed by 万 (一万 for 10000) and the rest below 万
KanjiNumeral(n) ==
    IF n = 0 THEN <<38646>>
    ELSE LET man == n \div 10000
         IN  (IF man = 0 THEN <<>>
              ELSE IF man = 1 THEN <<19968, 19975>>
              ELSE KanjiBelowMan(man) \o <<19975>>)
               \o KanjiBelowMan(n % 10000)

\* the numbers parsed: up to two non-zero digits, the leading one in any
\* place up to the eighth
NumInputs == {a * Pow10(e) + b : a \in 0..MaxDigit, b \in 0..MaxDigit, e \in 0..7}

InitNum ==
    /\ LexLoaded
    /\ th = [t \in Threads |-> Idle]
    /\ PipeOff
    /\ FbpOff
    /\ MoreOff
    /\ \E n \in NumInputs : \E text \in {Decimal(n), KanjiNumeral(n)} :
          num = [stage |-> "call", n |-> n, text |-> text, i |-> 1,
                 result |-> 0, current |-> 0, ret |-> -1]

\* int(arabic_str)
RECURSIVE IntOfDigits(_)
IntOfDigits(digits) ==
    IF digits = <<>> THEN 0
    ELSE 10 * IntOfDigits(SubSeq(digits, 1, Len(digits) - 1)) + digits[Len(digits)]

\* parse_number up to its call of parse_kanji_number: a text made of arabic
\* digits only is returned as int; any other goes to the kanji loop.  (No
\* input holds a digit outside DIGIT_VALUES, the case of `char.isdigit()`.)
ParseNumber ==
    /\ num.stage = "call"
    /\ LET text == num.text
           stop == {i \in 1..Len(text) : text[i] \notin DOMAIN DIGIT_VALUES}
           arabic_len == IF stop = {} THEN Len(text)
                         ELSE (CHOOSE i \in stop : \A j \in stop : i <= j) - 1
           arabic_str == [i \in 1..arabic_len |-> DIGIT_VALUES[text[i]]]
       IN  IF text = <<>>
           THEN num' = [num EXCEPT !.stage = "done", !.ret = -1]
           ELSE IF arabic_str # <<>> /\ Len(arabic_str) = Len(text)
           THEN num' = [num EXCEPT !.stage = "done", !.ret = IntOfDigits(arabic_str)]
           ELSE num' = [num EXCEPT !.stage = "kanji", !.i = 1, !.result = 0,
                                   !.current = 0]
    /\ UNCHANGED <<lexvars, pipevars, fbp, morevars>>

\* parse_kanji_number: one iteration of `for char in text`
ParseKanjiChar ==
    /\ num.stage = "kanji"
    /\ num.i <= Len(num.text)
    /\ LET char == num.text[num.i]
       IN  IF char \notin DOMAIN KANJI_NUMBERS
           THEN num' = [num EXCEPT !.stage = "done", !.ret = -1]
           ELSE LET value == KANJI_NUMBERS[char]
                    current == IF value >= 10 /\ num.current = 0 THEN 1
                               ELSE num.current
                IN  IF value >= 10000
                    THEN \* result += current * value
                         num' = [num EXCEPT !.result = @ + current * value,
                                            !.current = 0, !.i = @ + 1]
                    ELSE IF value >= 10
                    THEN \* current *= value; result += current
                         num' = [num EXCEPT !.result = @ + current * value,
                                            !.current = 0, !.i = @ + 1]
                    ELSE num' = [num EXCEPT
                                    !.result = IF num.current > 0
                                               THEN @ + num.current ELSE @,
                                    !.current = value, !.i = @ + 1]
    /\ UNCHANGED <<lexvars, pipevars, fbp, morevars>>

\* parse_kanji_number: after the loop
ParseKanjiReturn ==
    /\ num.stage = "kanji"
    /\ num.i > Len(num.text)
    /\ LET result == num.result + num.current
       IN  num' = [num EXCEPT
                     !.stage = "done", !.result = result,
                     !.ret = IF result > 0 \/ num.text \in {<<38646>>, <<12295>>}
                             THEN result ELSE -1]
    /\ UNCHANGED <<lexvars, pipevars, fbp, morevars>>

NextNum ==
    \/ ParseNumber
    \/ ParseKanjiChar
    \/ ParseKanjiReturn

SpecNum == InitNum /\ [][NextNum]_vars


-----------------------------------------------------------------------------
(* Claims about number parsing *)

\* C15: parse_number returns n for the arabic decimal string of n and for
\* the kanji numeral of n, for every n from 0 to 99,999,999.
C15_NumberRoundTrip ==
    num.stage = "done" => num.ret = num.n

-----------------------------------------------------------------------------
(* Claims about one call of the facade *)

\* tokenize(input) has returned toks
Returned == stage = "done" /\ round = 1

\* text[a:b] of Python: an end beyond the text is cut to the text's end
PySlice(s, a, b) == SubSeq(s, a + 1, Min2(b, Len(s)))

\* C1: the tokens tokenize returns are contiguous and cover the text: the
\* first starts at 0, the last ends at |text|, and each token starts where
\* the one before it ends.
C1_ContiguousCovering ==
    Returned =>
        /\ toks # <<>>
        /\ toks[1].start = 0
        /\ toks[Len(toks)].end = Len(input)
        /\ \A i \in 1..(Len(toks) - 1) : toks[i].end = toks[i + 1].start

\* C2: every token tokenize returns has the surface text[start:end].
C2_SurfaceFidelity ==
    Returned =>
        \A i \in 1..Len(toks) :
            PySlice(input, toks[i].start, toks[i].end) = toks[i].surface

\* C3: every punctuation separator of the text is a token of its own in
\* what tokenize returns: that one character, pos "punc", at its offset.
C3_PunctuationAtomic ==
    Returned =>
        \A p \in 0..(Len(input) - 1) :
            <<input[p + 1]>> \in PUNCTUATION_SEPARATORS =>
                \E i \in 1..Len(toks) :
                    /\ toks[i].surface = <<input[p + 1]>>
                    /\ toks[i].pos = "punc"
                    /\ toks[i].start = p
                    /\ toks[i].end = p + 1

\* C4: analyze(text, k), k >= 1, returns a non-empty list whose first
\* element carries the tokens of tokenize(text).
C4_AnalyzeFirstIsTokenize ==
    (Returned /\ klimit >= 1) =>
        /\ analysis # <<>>
        /\ analysis[1].tokens = toks

\* C5: the rewriter run on its own output returns that output unchanged.
C5_RewriterIdempotent ==
    (stage = "done" /\ round = 2) => toks = first

\* No substring of text is a key of lex.
NoKeySubstring(lex, text) ==
    \A a \in 0..(Len(text) - 1) : \A b \in (a + 1)..Len(text) :
        Slice(text, a, b) \notin lex

\* C11: for an input none of whose substrings is a lexicon key, tokenize
\* returns exactly one token: the whole input, pos "unk", base_form_id 0,
\* which the rewriter has left in one piece.
C11_UnknownInputOneToken ==
    (Returned /\ NoKeySubstring(lexicon, input)) =>
        toks = <<Token(input, "unk", 0, 0, Len(input))>>

\* Neither a split rule of split_token nor a token substitution matches the
\* surface taken as one token.
NoRewriterRule(lex, surface) ==
    /\ split_token(lex, surface) = <<surface>>
    /\ \A k \in 1..Len(TOKEN_SUBSTITUTIONS) :
          TOKEN_SUBSTITUTIONS[k][1] # <<surface>>

\* C12: when the whole input is one lexicon key that no split rule and no
\* substitution rule matches, tokenize returns exactly one token, whose
\* surface is that key, also when shorter keys tile the input.
C12_WholeKeyOneToken ==
    (Returned /\ input \in lexicon /\ NoRewriterRule(lexicon, input)) =>
        (Len(toks) = 1 /\ toks[1].surface = input)

\* C25: a pass of merge_compound_verbs leaves a する continuation apart from
\* the token before it unless that token's surface is a suru-able noun.
C25_SuruMergeNeedsNoun ==
    [][(stage = "merge_compound_verbs" /\ Len(toks) # prev_len) =>
          \A i \in 1..(Len(toks) - 1) :
             (/\ toks[i + 1].surface \in Range(SURU_CONTINUATION_PATTERNS)
              /\ toks[i].surface \notin SURU_COMPOUND_NOUNS)
             => \E j \in 1..Len(toks') : toks'[j] = toks[i + 1]]_vars

\* The tokens a rewriter step has made: those of toks' that toks has not.
Created == {j \in 1..Len(toks') : \A i \in 1..Len(toks) : toks[i] # toks'[j]}

\* C26: a token made by a merge has the pos of the leftmost token merged; a
\* token made by a split or a substitution whose surface is a lexicon key has
\* the pos name of the key's entry, not "unk".
C26_RewriterPos ==
    [][/\ (stage \in {"merge_compound_verbs", "apply_multi_token_merges",
                      "apply_merge_patterns"} /\ Len(toks) # prev_len) =>
             \A j \in Created :
                \E i \in 1..Len(toks) :
                   /\ toks[i].start = toks'[j].start
                   /\ toks[i].pos = toks'[j].pos
       /\ stage = "post_process_splits" =>
             \A j \in Created :
                toks'[j].surface \in lexicon =>
                   /\ toks'[j].pos = get_pos_name(lookup(lexicon, toks'[j].surface)[1].pos_id)
                   /\ toks'[j].pos # "unk"]_vars

RewriterLoops ==
    {"merge_compound_verbs", "apply_multi_token_merges", "apply_merge_patterns"}

\* the pass of the loop that stage names, applied once to the tokens
LoopPass(s, tokens) ==
    IF s = "merge_compound_verbs" THEN merge_compound_verbs(tokens)
    ELSE IF s = "apply_multi_token_merges" THEN apply_multi_token_merges(tokens)
    ELSE apply_merge_patterns(lexicon, tokens)

\* C28: every rewriter loop of tokenize terminates and ends at a fixed
\* point: each of the loops over merge_compound_verbs,
\* apply_multi_token_merges and apply_merge_patterns runs at most (number of
\* tokens it started on + 1) iterations, and when a loop exits, applying
\* its pass once more returns an identical token list.
C28_LoopsEndAtFixedPoint ==
    stage \in RewriterLoops =>
        /\ loop.iters <= loop.n0 + 1
        /\ ~LoopGoesOn(toks, prev_len) => LoopPass(stage, toks) = toks

\* a loop exits after a pass that merged tokens and a pass that changed
\* nothing
C28_Witness ==
    /\ stage \in RewriterLoops
    /\ ~LoopGoesOn(toks, prev_len)
    /\ loop.iters >= 2
    /\ Len(toks) < loop.n0
    /\ LoopPass(stage, toks) = toks

-----------------------------------------------------------------------------
(* Claims about the path selector *)

\* find_best_path has returned fbp.results
FbpReturned == fbp.stage = "done"

Sum(f) ==
    LET RECURSIVE S(_)
        S(i) == IF i = 0 THEN 0 ELSE f[i] + S(i - 1)
    IN  S(Len(f))

\* C13: the scores of the list analyze returns are in non-increasing order
\* and the list has at most limit elements.
C13_KBestMonotone ==
    FbpReturned =>
        LET returned == AnalyzeResults(fbp.results)
        IN  /\ Len(returned) <= fbp.limit
            /\ \A i \in 1..(Len(returned) - 1) :
                  returned[i].score >= returned[i + 1].score

\* C13 witness: a list of limit >= 2 candidates was returned, the first
\* scoring strictly more than the last.
C13_Witness ==
    /\ FbpReturned
    /\ fbp.limit >= 2
    /\ Len(fbp.results) = fbp.limit
    /\ fbp.results[1].score > fbp.results[fbp.limit].score

\* The totals of the chains of adjacent spans that lead from 0 to p, each
\* span counted with the highest score among its segments.
RECURSIVE ChainTotals(_, _)
ChainTotals(matches, p) ==
    IF p = 0 THEN {0}
    ELSE UNION {UNION {{t + Max({matches[s][i][2][j].score :
                                    j \in 1..Len(matches[s][i][2])}) :
                           t \in ChainTotals(matches, s)} :
                       i \in {x \in 1..Len(matches[s]) : matches[s][x][1] = p}} :
                s \in 0..(p - 1)}

\* C16: when adjacent spans lead from 0 to text_length, the first result
\* scores at least the total of every such chain.
C16_PathOptimal ==
    (FbpReturned /\ ChainTotals(fbp.matches, fbp.text_length) # {}) =>
        /\ fbp.results # <<>>
        /\ \A t \in ChainTotals(fbp.matches, fbp.text_length) :
              fbp.results[1].score >= t

\* C16 witness: chains of different totals cover the text and the first
\* result has the greatest of them.
C16_Witness ==
    /\ FbpReturned
    /\ Cardinality(ChainTotals(fbp.matches, fbp.text_length)) >= 2
    /\ fbp.results # <<>>
    /\ fbp.results[1].score = Max(ChainTotals(fbp.matches, fbp.text_length))

\* The score a path is worth: its segments' scores, and UNKNOWN_CHAR_PENALTY
\* for every character of the text that no segment of the path covers.
PathScore(path, text_length) ==
    Sum([j \in 1..Len(path) |-> path[j].score])
      + 10 * UNKNOWN_CHAR_PENALTY
           * (text_length - Sum([j \in 1..Len(path) |-> path[j].end - path[j].start]))

\* C17: the score of every (path, score) pair find_best_path returns is the
\* sum of the path's segment scores plus UNKNOWN_CHAR_PENALTY per character
\* that the path leaves uncovered.
C17_ScoreIsPathScore ==
    FbpReturned =>
        \A i \in 1..Len(fbp.results) :
            fbp.results[i].score = PathScore(fbp.results[i].path, fbp.text_length)

\* C18: no two results of find_best_path have the same sequence of segments.
C18_PathsDistinct ==
    FbpReturned =>
        \A i \in 1..Len(fbp.results) : \A j \in (i + 1)..Len(fbp.results) :
            fbp.results[i].path # fbp.results[j].path

\* C19: through the forward pass every position's candidate list, those
\* filled by gap transitions included, holds at most 2 * limit entries in
\* non-increasing score order, its first entry the best of the list.
C19_CandidateLists ==
    fbp.stage \in {"pos", "spans", "done"} =>
        \A p \in DOMAIN fbp.dp :
            /\ Len(fbp.dp[p]) <= 2 * fbp.limit
            /\ \A i \in 1..(Len(fbp.dp[p]) - 1) :
                  fbp.dp[p][i].score >= fbp.dp[p][i + 1].score
            /\ \A i \in 1..Len(fbp.dp[p]) :
                  fbp.dp[p][1].score >= fbp.dp[p][i].score

\* C19 witness: a position has received more than 2 * limit candidates, one
\* relaxation step each, and holds 2 * limit entries, while another position
\* was filled by gap transitions.
C19_Witness ==
    /\ fbp.stage = "done"
    /\ \E p \in DOMAIN fbp.dp :
          p > 0 /\ fbp.dp[p] # <<>> /\ fbp.dp[p][1].seg = <<>>
    /\ \E p \in DOMAIN fbp.dp :
          /\ Len(fbp.dp[p]) = 2 * fbp.limit
          /\ Cardinality({x \in (0..(p - 1)) \X (1..MaxSpans) \X (1..(2 * fbp.limit)) :
                             /\ x[2] <= Len(fbp.matches[x[1]])
                             /\ fbp.matches[x[1]][x[2]][1] = p
                             /\ x[3] <= Len(fbp.dp[x[1]])}) > 2 * fbp.limit

\* The segments of the span (start, end) in matches.
SegmentsOf(matches, start, end) ==
    matches[start][CHOOSE i \in 1..Len(matches[start]) :
                      matches[start][i][1] = end][2]

\* C20: the segment the selector uses for a span has the span's highest
\* score and, among the segments of that score, the smallest cost.
C20_TieBreakByCost ==
    fbp.stage \in {"pos", "spans", "done"} =>
        \A p \in DOMAIN fbp.dp : \A i \in 1..Len(fbp.dp[p]) :
            fbp.dp[p][i].seg # <<>> =>
                LET seg == fbp.dp[p][i].seg[1]
                    segments == SegmentsOf(fbp.matches, seg.start, seg.end)
                    top == Max({segments[j].score : j \in 1..Len(segments)})
                IN  /\ seg.score = top
                    /\ \A j \in 1..Len(segments) :
                          segments[j].score = top
                             => seg.entry.cost <= segments[j].entry.cost

\* C21: of the entries of a position that were reached by a segment and
\* score the same, the one from the later predecessor position stands first,
\* and the first result ends with the segment of that entry.
C21_TieFavoursLaterStart ==
    fbp.stage \in {"pos", "spans", "done"} =>
        /\ \A p \in DOMAIN fbp.dp :
              \A i \in 1..Len(fbp.dp[p]) : \A j \in (i + 1)..Len(fbp.dp[p]) :
                 (/\ fbp.dp[p][i].seg # <<>>
                  /\ fbp.dp[p][j].seg # <<>>
                  /\ fbp.dp[p][i].score = fbp.dp[p][j].score)
                 => fbp.dp[p][i].prev >= fbp.dp[p][j].prev
        /\ (FbpReturned /\ fbp.results # <<>>) =>
              LET finals == fbp.dp[fbp.text_length]
                  path == fbp.results[1].path
              IN  \A j \in 1..Len(finals) :
                     (/\ finals[j].seg # <<>>
                      /\ finals[j].score = finals[1].score
                      /\ path # <<>>
                      /\ path[Len(path)].end = fbp.text_length)
                     => path[Len(path)].start >= finals[j].prev

\* The unreachable positions of a forward pass were bridged: every position
\* holds an entry, and an entry without a segment comes from an entry of an
\* earlier position q, with -50 for each character from q to p.
Bridged(dp, text_length) ==
    \A p \in 0..text_length :
       /\ dp[p] # <<>>
       /\ \A i \in 1..Len(dp[p]) :
             (dp[p][i].seg = <<>> /\ p > 0) =>
                LET q == dp[p][i].prev
                IN  /\ q \in 0..(p - 1)
                    /\ \E k \in 1..Len(dp[q]) :
                          dp[p][i].score =
                             dp[q][k].score + 10 * UNKNOWN_CHAR_PENALTY * (p - q)

\* C22: gaps never make the selector fail.  For a lattice that is not empty,
\* the forward pass leaves an entry at every position and find_best_path
\* returns at least one path.
C22_GapsNeverFail ==
    (FbpReturned /\ ~NoMatches(fbp.matches)) =>
        /\ Bridged(fbp.dp, fbp.text_length)
        /\ fbp.results # <<>>

\* C22 witness: no span reaches the end of the text; the call returned a path
\* with a gap up to the end.
C22_Witness ==
    /\ FbpReturned
    /\ ~NoMatches(fbp.matches)
    /\ fbp.dp[fbp.text_length][1].seg = <<>>
    /\ fbp.results # <<>>
    /\ fbp.results[1].gaps # <<>>
    /\ fbp.results[1].path # <<>>

-----------------------------------------------------------------------------
(* Claims about the lattice builder *)

\* find_all_matches has returned lat.matches
LatReturned == lat.stage = "done"

\* Indices where a word may not start: the small kana and the long vowel sign.
WordStartForbidden(text) ==
    {i \in 0..(Len(text) - 1) : text[i + 1] \in MODIFIER_CHARS}

\* Indices where a word may not end: right after a sokuon that is not the
\* last character.
WordEndForbidden(text) ==
    {i + 1 : i \in {j \in 0..(Len(text) - 2) : text[j + 1] \in SOKUON_CHARS}}

\* (s, e) is a key of matches
InLattice(matches, s, e) ==
    \E i \in 1..Len(matches[s]) : matches[s][i][1] = e

\* C23: the lattice has the span (s, e) exactly when s is no forbidden start,
\* e no forbidden end, e - s is 1..MAX_WORD_LENGTH and text[s:e] is a key;
\* the span then carries one Segment for each record of the key, in order.
C23_LatticeExact ==
    LatReturned =>
        \A s \in 0..(Len(lat.text) - 1) : \A e \in (s + 1)..Len(lat.text) :
            /\ InLattice(lat.matches, s, e) <=>
                  (/\ s \notin WordStartForbidden(lat.text)
                   /\ e \notin WordEndForbidden(lat.text)
                   /\ e - s <= MAX_WORD_LENGTH
                   /\ Slice(lat.text, s, e) \in lat.lex)
            /\ InLattice(lat.matches, s, e) =>
                  LET segments == SegmentsOf(lat.matches, s, e)
                      records == Records(lat.lex, Slice(lat.text, s, e))
                  IN  /\ segments # <<>>
                      /\ Len(segments) = Len(records)
                      /\ \A i \in 1..Len(segments) :
                            /\ segments[i].entry.seq = records[i].seq
                            /\ segments[i].entry.pos_id = records[i].pos_id
                            /\ segments[i].start = s
                            /\ segments[i].end = e

C29_LoadFailureAtomic ==
    [][/\ \A t \in Threads :
             (th[t].pc = "ld_mmap" /\ th'[t].result = "LexiconCorrupt")
                => DICTIONARY' = 0
       /\ KANA_READINGS = "None" => KANA_READINGS' \in {"None", "loaded"}]_vars

-----------------------------------------------------------------------------
(* Claims about the split score adjustment *)

AdjReturned == adj.stage = "done"

\* C27: every entry flagged as prefer-split (should_split(surface, seq) is
\* true, by its seq in a split table or by its surface in a split word set)
\* gets a strictly negative adjustment from
\* calculate_split_score_adjustment.
C27_SplitAdjustmentNegative ==
    (AdjReturned /\ should_split(adj.surface, adj.seq)) => adj.result < 0

-----------------------------------------------------------------------------
(* Claims about the thread pool of the async wrappers *)

\* the executors made and not shut down
LiveExecutors == {e \in 1..pool.made : e \notin pool.down}

\* C30: the thread pool of the async wrappers is a singleton.  In every
\* interleaving of concurrent calls of _get_executor one ThreadPoolExecutor
\* is created and every caller receives it (no second executor exists while
\* one is live, and no caller receives None), and in every interleaving with
\* shutdown() no call submits work to an executor that shutdown() has shut
\* down.
C30_ExecutorSingleton ==
    pool.stage = "on" =>
        /\ Cardinality(LiveExecutors) <= 1
        /\ \A t \in Threads :
              /\ pool.c[t].pc = "submit" => pool.c[t].ex # 0
              /\ pool.c[t].out # "RuntimeError"

-----------------------------------------------------------------------------
(* Claims about the lexicon singleton *)

\* The step is one of thread t.
StepOf(t) == th'[t] # th[t]

\* C6: once-only initialization.  Between two unloads at most one RecordTrie
\* object is ever constructed, whatever the interleaving of the threads'
\* first lexicon-using calls, and the global names that object.
C6_OnceOnlyInit == created <= 1 /\ DICTIONARY \in {0, 1}

\* C7: with an intact artifact, no step of a tokenize / analyze call (the
\* lattice builder's queries) reads a trie whose memory mapping is not
\* complete, so no such call can see a lexicon other than the artifact.
C7_NoUnmappedRead ==
    [][\A t \in Threads :
          (StepOf(t) /\ th[t].op = "find_all_matches" /\ th[t].pc = "read"
              /\ dicFile = "ok")
          => DICTIONARY \in mapped]_vars

BlankText(text) == \A i \in 1..Len(text) : text[i] = " "

\* C9: tokenize(text) with an empty or blank text, and analyze(text, limit)
\* with such a text or with limit < 1, raise ValueError in their first step:
\* the call ends there, having touched neither the lexicon handle, the
\* mapping, nor the side tables.
C9_InvalidInputBeforeLexicon ==
    [][\A t \in Threads :
          (/\ StepOf(t)
           /\ th[t].op \in {"tokenize", "analyze"}
           /\ \/ BlankText(th[t].text)
              \/ th[t].op = "analyze" /\ th[t].limit < 1)
          => /\ th[t].pc = "validate"
             /\ th'[t].pc = "idle"
             /\ th'[t].result = "ValueError"
             /\ UNCHANGED <<DICTIONARY, BASE_FORMS, KANA_READINGS, mapped, created>>]_vars

\* C9 witness: a call was rejected while the lexicon has never been loaded.
C9_Witness ==
    \E t \in Threads :
        th[t].result = "ValueError" /\ DICTIONARY = 0 /\ created = 0

\* C10: while data/himotoki.dic is absent the lexicon stays unloaded and a
\* load attempt that reaches the existence check raises FileNotFoundError;
\* with the artifact intact, load_dictionary never raises and, when it
\* returns, the lexicon is loaded.
C10_MissingLexicon ==
    [][/\ (dicFile = "absent" => DICTIONARY = 0 /\ created = 0)
       /\ \A t \in Threads :
             (StepOf(t) /\ dicFile = "absent" /\ th[t].pc \in {"ld_check", "ld_exists"})
                => /\ DICTIONARY' = 0
                   /\ \/ th[t].pc = "ld_check" /\ th'[t].pc = "ld_exists"
                      \/ th[t].pc = "ld_exists" /\ th'[t].pc = "idle"
                            /\ th'[t].result = "FileNotFoundError"
       /\ \A t \in Threads :
             (StepOf(t) /\ dicFile = "ok" /\ th[t].op = "load_dictionary")
                => /\ th'[t].result \notin {"FileNotFoundError", "LexiconCorrupt"}
                   /\ th'[t].pc = "idle" => (th'[t].result = "ok" /\ DICTIONARY' # 0)]_vars

C10_Witness ==
    \E t, u \in Threads :
        /\ th[t].result = "FileNotFoundError"
        /\ th[u].result = "ok"
        /\ dicFile = "ok"
        /\ DICTIONARY \in mapped

=============================================================================
